---- MODULE Spec2Model ----
(***************************************************************************)
(* A model of povg, a Python wrapper for the OpenVG 1.1 API.               *)
(*                                                                         *)
(*   - povg.path.Path: the segment-adding methods, _add_segment,           *)
(*     _append_data and the queue_segments context manager;                *)
(*   - povg.flatten and povg.unflatten;                                    *)
(*   - povg.params.BitMask: construction, conversion to an integer,        *)
(*     extend and comparison;                                              *)
(*   - povg.native.error_check and povg.vgu.native.vgu_error_check.        *)
(*                                                                         *)
(* The native boundary is the call of native.vgAppendPathData made by      *)
(* Path._append_data: the model records the arguments of each such call,   *)
(* and the call either returns or raises (the error trap, or the foreign   *)
(* function interface refusing an argument).                               *)
(***************************************************************************)
EXTENDS Integers, Sequences, FiniteSets, TLC

VARIABLES
    queuing,          \* Path._queuing
    queued_commands,  \* Path._queued_commands
    queued_data,      \* Path._queued_data
    scopes,           \* the open "with path.queue_segments():" blocks, outermost
                      \* first; each holds the segments added since it was entered
    native_calls,     \* the native.vgAppendPathData calls made by the last operation
    last,             \* the last operation: its name, arguments and outcome
    fl,               \* the flatten / unflatten computation (see further down)
    bm,               \* a BitMask type and its instances (see further down)
    ec,               \* the calls of error-checked functions (see further down)
    reg,              \* the class attributes of the parameter tables and of
                      \* the bit mask types (see further down)
    pr,               \* the last access to a parameter (see further down)
    hd,               \* the native objects and their wrappers (see further down)
    log,              \* the segments added to the path and those delivered
    mx                \* the matrices and the current matrix (see further down)

vars == <<queuing, queued_commands, queued_data, scopes, native_calls, last,
          fl, bm, ec, reg, pr, hd, log, mx>>

pathVars == <<queuing, queued_commands, queued_data, scopes, native_calls, last>>

\* What the operations of a Path leave alone.
notPathVars == <<fl, bm, ec, reg, pr, hd, log, mx>>

\* What flatten and unflatten, the operations of a bit mask, and the
\* error-checked calls leave alone.
notFlatVars == <<pathVars, bm, ec, reg, pr, hd, log, mx>>

notMaskVars == <<pathVars, fl, ec, reg, pr, hd, log, mx>>

notCheckVars == <<pathVars, fl, bm, reg, pr, hd, log, mx>>
notRegVars == <<pathVars, fl, bm, ec, pr, hd, log, mx>>
notParamVars == <<pathVars, fl, bm, ec, reg, hd, log, mx>>
notHandleVars == <<pathVars, fl, bm, ec, reg, pr, log, mx>>
notDeliverVars == <<fl, bm, ec, reg, pr, hd, mx>>
notMatrixVars == <<pathVars, fl, bm, ec, reg, pr, hd, log>>

----------------------------------------------------------------------------
(* Bounds of the exploration. *)

\* The most segments the pending buffers hold, and the most segments added
\* inside one queuing scope.
MaxQueue == 2

\* The same, where every segment type and every arc_to argument is explored.
MaxEncodeQueue == 1

\* The most "with path.queue_segments():" blocks open at once.
MaxDepth == 2

----------------------------------------------------------------------------
(* Sequence helpers. *)

RECURSIVE chain_from_iterable(_)
\* itertools.chain.from_iterable, consumed: the elements of the inner
\* sequences, in order.
chain_from_iterable(seqs) ==
    IF seqs = <<>> THEN <<>>
    ELSE Head(seqs) \o chain_from_iterable(Tail(seqs))

\* itertools.chain(a, b, ...), consumed.
chain(iterables) == chain_from_iterable(iterables)

----------------------------------------------------------------------------
(* povg.path: segment commands. *)

\* namedtuple('PathSegments_tuple', (...))(*range(13))
PathSegments ==
    [CLOSE_PATH |-> 0, MOVE_TO |-> 1, LINE_TO |-> 2, HLINE_TO |-> 3,
     VLINE_TO |-> 4, QUAD_TO |-> 5, CUBIC_TO |-> 6, SQUAD_TO |-> 7,
     SCUBIC_TO |-> 8, SCCWARC_TO |-> 9, SCWARC_TO |-> 10,
     LCCWARC_TO |-> 11, LCWARC_TO |-> 12]

\* A slip in the low bit: 1 for absolute, 0 for relative.
SegmentCommandFlipped(segment_type, is_absolute) ==
    2 * segment_type + (IF is_absolute THEN 1 ELSE 0)

SegmentCommand(segment_type, is_absolute) ==
    2 * segment_type + (IF is_absolute THEN 0 ELSE 1)

\* The dict of arc_to: (is_short, is_clockwise) -> segment type.
ArcCommand(is_short, is_clockwise) ==
    CASE ~is_short /\ ~is_clockwise -> PathSegments.LCCWARC_TO
      [] ~is_short /\ is_clockwise  -> PathSegments.LCWARC_TO
      [] is_short /\ ~is_clockwise  -> PathSegments.SCCWARC_TO
      [] is_short /\ is_clockwise   -> PathSegments.SCWARC_TO

----------------------------------------------------------------------------
(* The record of the last operation. *)

\* op: the method; is_absolute, is_short, is_clockwise: its flags; args: its
\* coordinate arguments, each a sequence; scalar: whether arc_to's radii was
\* a bare number; command: <<c>> once SegmentCommand was evaluated to c;
\* data: the payload handed to _add_segment; result: "ok" or the exception.
\* For the end of a with block, left: the segments added inside it, and
\* nested: whether it was entered inside another or another inside it.
Op(op, is_absolute, args) ==
    [op |-> op, is_absolute |-> is_absolute, is_short |-> TRUE,
     is_clockwise |-> FALSE, scalar |-> FALSE, args |-> args,
     command |-> <<>>, data |-> <<>>, result |-> "ok", left |-> <<>>,
     nested |-> FALSE]

ScopeOp(op, result, scope) ==
    [Op(op, TRUE, <<>>) EXCEPT !.result = result, !.left = scope.added,
                               !.nested = scope.nested]

----------------------------------------------------------------------------
(* povg.path.Path *)

\* Path.__init__: not queuing, both queues empty.
PathInit ==
    /\ queuing = FALSE
    /\ queued_commands = <<>>
    /\ queued_data = <<>>
    /\ scopes = <<>>
    /\ native_calls = <<>>
    /\ last = Op("__init__", TRUE, <<>>)

\* native.vgAppendPathData(self, len(commands), commands, data)
NativeAppend(commands, data) ==
    [n |-> Len(commands), commands |-> commands, data |-> data]

\* Path._append_data
append_data(commands, data) ==
    native_calls' = <<NativeAppend(commands, data)>>

\* A slip: the segment is dispatched as well as queued.
add_segment_also_dispatches(command, data) ==
    IF queuing
    THEN /\ queued_commands' = Append(queued_commands, command)
         /\ queued_data' = queued_data \o data
         /\ append_data(<<command>>, data)
         /\ UNCHANGED queuing
    ELSE /\ append_data(<<command>>, data)
         /\ UNCHANGED <<queuing, queued_commands, queued_data>>

\* A slip: the segment count is the length of the data, not of the commands.
add_segment_counts_data(command, data) ==
    IF queuing
    THEN /\ queued_commands' = Append(queued_commands, command)
         /\ queued_data' = queued_data \o data
         /\ native_calls' = <<>>
         /\ UNCHANGED queuing
    ELSE /\ native_calls' = <<[NativeAppend(<<command>>, data)
                                 EXCEPT !.n = Len(data)]>>
         /\ UNCHANGED <<queuing, queued_commands, queued_data>>

\* Path._add_segment
add_segment(command, data) ==
    IF queuing
    THEN /\ queued_commands' = Append(queued_commands, command)
         /\ queued_data' = queued_data \o data
         /\ native_calls' = <<>>
         /\ UNCHANGED queuing
    ELSE /\ append_data(<<command>>, data)
         /\ UNCHANGED <<queuing, queued_commands, queued_data>>

\* Bookkeeping of a call that reached _add_segment: the native call, made
\* only when not queuing, may raise; a segment that was taken is added to
\* every open with block.
Segment(call, command, data, raised) ==
    /\ queuing => ~raised
    /\ add_segment(command, data)
    /\ last' = [call EXCEPT !.command = <<command>>, !.data = data,
                            !.result = IF raised THEN "OpenVGError" ELSE "ok"]
    /\ scopes' =
         IF raised THEN scopes
         ELSE [i \in DOMAIN scopes |->
                 [scopes[i] EXCEPT
                    !.added = Append(@, [command |-> command, data |-> data])]]

\* A call that raised before it reached _add_segment: nothing changes.
Raises(call) ==
    /\ last' = call
    /\ native_calls' = <<>>
    /\ UNCHANGED <<queuing, queued_commands, queued_data, scopes>>

close_path(raised) ==
    Segment(Op("close_path", TRUE, <<>>),
            SegmentCommand(PathSegments.CLOSE_PATH, TRUE), <<>>, raised)

move_to(pos, is_absolute, raised) ==
    Segment(Op("move_to", is_absolute, <<pos>>),
            SegmentCommand(PathSegments.MOVE_TO, is_absolute), pos, raised)

line_to(pos, is_absolute, raised) ==
    Segment(Op("line_to", is_absolute, <<pos>>),
            SegmentCommand(PathSegments.LINE_TO, is_absolute), pos, raised)

hline_to(xpos, is_absolute, raised) ==
    Segment(Op("hline_to", is_absolute, <<<<xpos>>>>),
            SegmentCommand(PathSegments.HLINE_TO, is_absolute), <<xpos>>, raised)

vline_to(ypos, is_absolute, raised) ==
    Segment(Op("vline_to", is_absolute, <<<<ypos>>>>),
            SegmentCommand(PathSegments.VLINE_TO, is_absolute), <<ypos>>, raised)

quad_to(ctrl, pos, is_absolute, raised) ==
    Segment(Op("quad_to", is_absolute, <<ctrl, pos>>),
            SegmentCommand(PathSegments.QUAD_TO, is_absolute),
            chain(<<ctrl, pos>>), raised)

cubic_to(ctrl0, ctrl1, pos, is_absolute, raised) ==
    Segment(Op("cubic_to", is_absolute, <<ctrl0, ctrl1, pos>>),
            SegmentCommand(PathSegments.CUBIC_TO, is_absolute),
            chain(<<ctrl0, ctrl1, pos>>), raised)

smooth_quad_to(pos, is_absolute, raised) ==
    Segment(Op("smooth_quad_to", is_absolute, <<pos>>),
            SegmentCommand(PathSegments.SQUAD_TO, is_absolute), pos, raised)

smooth_cubic_to(ctrl1, pos, is_absolute, raised) ==
    Segment(Op("smooth_cubic_to", is_absolute, <<ctrl1, pos>>),
            SegmentCommand(PathSegments.SCUBIC_TO, is_absolute),
            chain(<<ctrl1, pos>>), raised)

\* The names arc_to can read when it builds the payload: its parameters and
\* locals, and the names bound at the top level of povg/path.py.
ArcToLocals ==
    {"self", "radii", "rotation", "pos", "is_short", "is_clockwise",
     "is_absolute", "command", "lrad"}

PathModuleGlobals ==
    {"namedtuple", "contextmanager", "c_float", "chain", "native",
     "OpenVGError", "PathFormats", "PathDatatypes", "PathCapabilities",
     "PathParams", "param_convert", "PaintModes", "kwargs_to_modes",
     "PathSegments", "SegmentCommand", "Path"}

\* The radii of arc_to after its try / except / else. radii is
\* [scalar |-> TRUE, vals |-> <<r>>] for a bare number r, of which len()
\* raises TypeError, and [scalar |-> FALSE, vals |-> s] for a sequence s.
ArcRadii(radii) ==
    IF radii.scalar THEN <<radii.vals[1], radii.vals[1]>>
    ELSE IF Len(radii.vals) = 1 THEN <<radii.vals[1], radii.vals[1]>>
    ELSE radii.vals

arc_to(radii, rotation, pos, is_short, is_clockwise, is_absolute, raised) ==
    LET command == ArcCommand(is_short, is_clockwise)
        call == [Op("arc_to", is_absolute, <<radii.vals, <<rotation>>, pos>>)
                   EXCEPT !.is_short = is_short, !.is_clockwise = is_clockwise,
                          !.scalar = radii.scalar]
    IN  IF ~radii.scalar /\ Len(radii.vals) \notin {1, 2}
        THEN \* raise TypeError('expected 1 or 2 radii, got {}')
             /\ ~raised
             /\ Raises([call EXCEPT !.result = "TypeError"])
        ELSE IF "rot" \notin ArcToLocals \cup PathModuleGlobals
        THEN \* chain(radii, (rot,), pos): the name rot is not bound
             /\ ~raised
             /\ Raises([call EXCEPT
                          !.command = <<SegmentCommand(command, is_absolute)>>,
                          !.result = "NameError"])
        ELSE Segment(call, SegmentCommand(command, is_absolute),
                     chain(<<ArcRadii(radii), <<rotation>>, pos>>), raised)

\* queue_segments, entered: the generator runs to its yield.
queue_segments_enter ==
    /\ queuing' = TRUE
    /\ scopes' = Append([i \in DOMAIN scopes |->
                           [scopes[i] EXCEPT !.nested = TRUE]],
                        [added |-> <<>>, nested |-> scopes # <<>>])
    /\ native_calls' = <<>>
    /\ last' = Op("queue_segments.enter", TRUE, <<>>)
    /\ UNCHANGED <<queued_commands, queued_data>>

\* A slip: the queues are not emptied after the flush.
queue_segments_exit_keeps_queues(raised) ==
    /\ scopes # <<>>
    /\ append_data(queued_commands, queued_data)
    /\ IF raised
       THEN UNCHANGED <<queuing, queued_commands, queued_data>>
       ELSE /\ queuing' = FALSE
            /\ UNCHANGED <<queued_commands, queued_data>>
    /\ scopes' = SubSeq(scopes, 1, Len(scopes) - 1)
    /\ last' = ScopeOp("queue_segments.exit",
                       IF raised THEN "OpenVGError" ELSE "ok",
                       scopes[Len(scopes)])

\* queue_segments, left without an exception: the generator runs on from
\* its yield. When the native call raises, the two lines after it never run.
queue_segments_exit(raised) ==
    /\ scopes # <<>>
    /\ append_data(queued_commands, queued_data)
    /\ IF raised
       THEN UNCHANGED <<queuing, queued_commands, queued_data>>
       ELSE /\ queued_commands' = <<>>
            /\ queued_data' = <<>>
            /\ queuing' = FALSE
    /\ scopes' = SubSeq(scopes, 1, Len(scopes) - 1)
    /\ last' = ScopeOp("queue_segments.exit",
                       IF raised THEN "OpenVGError" ELSE "ok",
                       scopes[Len(scopes)])

\* queue_segments, left by an exception raised in the with block: the
\* exception is thrown into the generator at its yield, which has no
\* try around it, and the generator ends there.
queue_segments_throw ==
    /\ scopes # <<>>
    /\ scopes' = SubSeq(scopes, 1, Len(scopes) - 1)
    /\ native_calls' = <<>>
    /\ last' = ScopeOp("queue_segments.throw", "raised", scopes[Len(scopes)])
    /\ UNCHANGED <<queuing, queued_commands, queued_data>>

----------------------------------------------------------------------------
(* povg.params.BitMask *)

\* bm: a subclass of BitMask and its instances.
\*   bit_names, extensions: the class attributes;
\*   props: the properties __init__ has set on the class, as the bit number
\*     each name reads and writes;
\*   masks: the bits attribute of each instance, in the order of creation;
\*   last: the last operation.

\* The name of a bit without a name.
None == "None"

\* A bit mask operation on record: extend's bit_number, bit_name and
\* override; the constructor's args and kwargs; the two instances compared
\* and whether they were found equal; result, "ok" or the exception; and
\* the class attributes as they were before it.
BitMaskOp(op) ==
    [op |-> op, bit_number |-> 0, bit_name |-> None, override |-> FALSE,
     args |-> <<>>, kwargs |-> <<>>, left |-> 0, right |-> 0, equal |-> FALSE,
     result |-> "ok", bit_names |-> <<>>, extensions |-> <<>>]

\* class BitMask: bit_names = [], extensions = [], and no instance yet.
BitMaskInit ==
    bm = [bit_names |-> <<>>, extensions |-> <<>>, props |-> <<>>,
          masks |-> <<>>, last |-> BitMaskOp("class")]

\* [None] * n
Nones(n) == [i \in 1..n |-> None]

\* A slip: the names between the old width and the new bit are left out.
extend_without_padding(bit_number, bit_name, override) ==
    LET off_end == bit_number - Len(bm.bit_names)
        call == [BitMaskOp("extend") EXCEPT
                   !.bit_number = bit_number, !.bit_name = bit_name,
                   !.override = override, !.bit_names = bm.bit_names,
                   !.extensions = bm.extensions]
    IN  IF off_end < 0 /\ ~(override \/ bm.bit_names[bit_number + 1] = None)
        THEN bm' = [bm EXCEPT !.last = [call EXCEPT !.result = "TypeError"]]
        ELSE bm' = [bm EXCEPT
                      !.bit_names =
                         IF off_end < 0
                         THEN [@ EXCEPT ![bit_number + 1] = bit_name]
                         ELSE Append(@, bit_name),
                      !.extensions = Append(@, bit_name),
                      !.last = call]

\* A slip: a name is replaced whether or not override is given.
extend_always_overrides(bit_number, bit_name, override) ==
    LET off_end == bit_number - Len(bm.bit_names)
        call == [BitMaskOp("extend") EXCEPT
                   !.bit_number = bit_number, !.bit_name = bit_name,
                   !.override = override, !.bit_names = bm.bit_names,
                   !.extensions = bm.extensions]
    IN  bm' = [bm EXCEPT
                 !.bit_names =
                    IF off_end < 0
                    THEN [@ EXCEPT ![bit_number + 1] = bit_name]
                    ELSE @ \o Nones(off_end) \o <<bit_name>>,
                 !.extensions = Append(@, bit_name),
                 !.last = call]

\* BitMask.extend(bit_number, bit_name, override=False), bit_number >= 0.
extend(bit_number, bit_name, override) ==
    LET off_end == bit_number - Len(bm.bit_names)
        call == [BitMaskOp("extend") EXCEPT
                   !.bit_number = bit_number, !.bit_name = bit_name,
                   !.override = override, !.bit_names = bm.bit_names,
                   !.extensions = bm.extensions]
    IN  IF off_end < 0 /\ ~(override \/ bm.bit_names[bit_number + 1] = None)
        THEN bm' = [bm EXCEPT !.last = [call EXCEPT !.result = "TypeError"]]
        ELSE bm' = [bm EXCEPT
                      !.bit_names =
                         IF off_end < 0
                         THEN [@ EXCEPT ![bit_number + 1] = bit_name]
                         ELSE @ \o Nones(off_end) \o <<bit_name>>,
                      !.extensions = Append(@, bit_name),
                      !.last = call]

RECURSIVE from_int_stops_early(_, _, _)
\* A slip: the last bit of the mask's width is never reached.
from_int_stops_early(bits, mask, pos) ==
    IF mask > 0 /\ pos < Len(bits) - 1
    THEN from_int_stops_early([bits EXCEPT ![pos + 1] = (mask % 2 = 1)],
                              mask \div 2, pos + 1)
    ELSE bits

RECURSIVE from_int(_, _, _)
\* BitMask._from_int(mask), from position pos on: bit by bit until either
\* mask runs out of bits; self.bits[pos] = bool(bit).
from_int(bits, mask, pos) ==
    IF mask > 0 /\ pos < Len(bits)
    THEN from_int([bits EXCEPT ![pos + 1] = (mask % 2 = 1)],
                  mask \div 2, pos + 1)
    ELSE bits

RECURSIVE from_ints(_, _)
\* for mask in args: self._from_int(mask)
from_ints(bits, args) ==
    IF args = <<>> THEN bits
    ELSE from_ints(from_int(bits, Head(args), 0), Tail(args))

RECURSIVE int(_)
\* BitMask.__int__: sum(2 ** i if bit else 0 for i, bit in enumerate(bits))
int(bits) ==
    IF bits = <<>> THEN 0
    ELSE (IF Head(bits) THEN 1 ELSE 0) + 2 * int(Tail(bits))

\* The properties set by the first loop of __init__: one for each named
\* position, a later position replacing an earlier one of the same name.
NamedProps(bit_names) ==
    LET named == {i \in DOMAIN bit_names : bit_names[i] # None}
        last_of(posname) ==
            CHOOSE i \in named :
                /\ bit_names[i] = posname
                /\ \A j \in named : bit_names[j] = posname => j <= i
    IN  [posname \in {bit_names[i] : i \in named} |-> last_of(posname) - 1]

\* setattr(self.__class__, posname, bitprop) for each of them.
SetProps(props, bit_names) == NamedProps(bit_names) @@ props

\* bitprop.fset(self, kwargs['ALL']) for every named position.
SetAll(bits, bit_names, val) ==
    [i \in DOMAIN bits |-> IF bit_names[i] # None THEN val ELSE bits[i]]

RECURSIVE set_kwargs(_, _, _)
\* for bit_name in kwargs: getattr(self.__class__, bit_name).fset(self, ...)
\* kwargs is the sequence of the keywords in the order given; a keyword that
\* is no property of the class raises AttributeError.
set_kwargs(bits, props, kwargs) ==
    IF kwargs = <<>> THEN [err |-> "", bits |-> bits]
    ELSE IF Head(kwargs).name \notin DOMAIN props
    THEN [err |-> "AttributeError", bits |-> bits]
    ELSE set_kwargs([bits EXCEPT ![props[Head(kwargs).name] + 1] =
                                     Head(kwargs).val],
                    props, Tail(kwargs))

\* BitMask(*args, **kwargs): __init__. The properties are set on the class
\* even when the constructor raises; the instance exists only if it returns.
BitMask(args, kwargs) ==
    LET bit_names == bm.bit_names
        props == SetProps(bm.props, bit_names)
        zeros == [i \in DOMAIN bit_names |-> FALSE]
        all == {i \in DOMAIN kwargs : kwargs[i].name = "ALL"}
        set == set_kwargs(from_ints(zeros, args), props, kwargs)
        call == [BitMaskOp("BitMask") EXCEPT
                   !.args = args, !.kwargs = kwargs,
                   !.bit_names = bm.bit_names, !.extensions = bm.extensions]
    IN  IF all # {}
        THEN bm' = [bm EXCEPT
                      !.props = props,
                      !.masks = Append(@, SetAll(zeros, bit_names,
                                                 kwargs[CHOOSE i \in all : TRUE].val)),
                      !.last = call]
        ELSE IF set.err # ""
        THEN bm' = [bm EXCEPT !.props = props,
                              !.last = [call EXCEPT !.result = set.err]]
        ELSE bm' = [bm EXCEPT !.props = props,
                              !.masks = Append(@, set.bits),
                              !.last = call]

\* left == right for two instances: BitMask defines no __eq__, so the
\* comparison is that of object, which is identity.
eq(left, right) ==
    bm' = [bm EXCEPT
             !.last = [BitMaskOp("==") EXCEPT
                         !.left = left, !.right = right,
                         !.equal = (left = right),
                         !.bit_names = bm.bit_names,
                         !.extensions = bm.extensions]]

----------------------------------------------------------------------------
(* povg.native.error_check and povg.vgu.native.vgu_error_check *)

\* OpenVGError and its subclasses, by name.
OpenVGError == "OpenVGError"

\* 0x1000 and 0xF000
VG_ERROR_BASE == 4096

VGU_ERROR_BASE == 61440

\* povg.error_codes; 0 maps to None.
error_codes ==
    (0 :> None)
    @@ (VG_ERROR_BASE :> "BadHandleError")
    @@ (VG_ERROR_BASE + 1 :> "IllegalArgumentError")
    @@ (VG_ERROR_BASE + 2 :> "OutOfMemoryError")
    @@ (VG_ERROR_BASE + 3 :> "PathCapabilityError")
    @@ (VG_ERROR_BASE + 4 :> "UnsupportedImageFormatError")
    @@ (VG_ERROR_BASE + 5 :> "UnsupportedPathFormatError")
    @@ (VG_ERROR_BASE + 6 :> "ImageInUseError")
    @@ (VG_ERROR_BASE + 7 :> "NoContextError")

\* povg.vgu.vgu_error_codes
vgu_error_codes ==
    (0 :> None)
    @@ (VGU_ERROR_BASE :> "BadHandleError")
    @@ (VGU_ERROR_BASE + 1 :> "IllegalArgumentError")
    @@ (VGU_ERROR_BASE + 2 :> "OutOfMemoryError")
    @@ (VGU_ERROR_BASE + 3 :> "PathCapabilityError")
    @@ (VGU_ERROR_BASE + 4 :> "BadWarpError")

\* dict.get(key, default)
get(dict, key, default) ==
    IF key \in DOMAIN dict THEN dict[key] ELSE default

\* ec: the calls of wrapped functions made so far, each with
\*   api: "vg" for error_check, "vgu" for vgu_error_check;
\*   result: what the native function returned;
\*   trap: the codes vgGetError returned, one for each time it was called;
\*   invoked: how many times the native function was called;
\*   raised: the exception raised, None for none;
\*   returned: <<v>> when the wrapped function returned v.
EcInit == ec = <<>>

\* A slip: the trap is not read, the function's return value is taken for
\* the error code, as the utility functions do.
error_check_tests_result(result, code) ==
    LET errcode == get(error_codes, result, OpenVGError)
    IN  ec' = Append(ec, [api |-> "vg", result |-> result, trap |-> <<>>,
                          invoked |-> 1, raised |-> errcode,
                          returned |-> IF errcode # None THEN <<>>
                                       ELSE <<result>>])

\* error_check(fn)(...): fn returns result and leaves code in the trap.
error_check(result, code) ==
    LET errcode == get(error_codes, code, OpenVGError)
    IN  ec' = Append(ec, [api |-> "vg", result |-> result, trap |-> <<code>>,
                          invoked |-> 1, raised |-> errcode,
                          returned |-> IF errcode # None THEN <<>>
                                       ELSE <<result>>])

\* A slip: the code is looked up in the table of the error trap.
vgu_error_check_wrong_table(result) ==
    LET errcode == get(error_codes, result, OpenVGError)
    IN  ec' = Append(ec, [api |-> "vgu", result |-> result, trap |-> <<>>,
                          invoked |-> 1, raised |-> errcode,
                          returned |-> IF errcode # None THEN <<>>
                                       ELSE <<result>>])

\* vgu_error_check(fn)(...): fn returns result, which is the error code.
vgu_error_check(result) ==
    LET errcode == get(vgu_error_codes, result, OpenVGError)
    IN  ec' = Append(ec, [api |-> "vgu", result |-> result, trap |-> <<>>,
                          invoked |-> 1, raised |-> errcode,
                          returned |-> IF errcode # None THEN <<>>
                                       ELSE <<result>>])

----------------------------------------------------------------------------
(* povg.params: the class attributes of Params, BitMask and their subclasses *)

\* range(0x1600, 0x1606) and range(0x1a00, 0x1a08)
PATH_PARAM_BASE == 5632

PAINT_PARAM_BASE == 6656

\* Details(desc, values, default); values is the type by name.
Details(desc, values, default) ==
    [desc |-> desc, values |-> values, default |-> default]

\* PathParams.details
PathParamsDetails ==
    (PATH_PARAM_BASE :> Details("FORMAT", "namedtuple", 0))
    @@ (PATH_PARAM_BASE + 1 :> Details("DATATYPE", "namedtuple", 2))
    @@ (PATH_PARAM_BASE + 2 :> Details("SCALE", "c_float", 1))
    @@ (PATH_PARAM_BASE + 3 :> Details("BIAS", "c_float", 0))
    @@ (PATH_PARAM_BASE + 4 :> Details("NUM_SEGMENTS", "c_int", 0))
    @@ (PATH_PARAM_BASE + 5 :> Details("NUM_COORDS", "c_int", 0))

\* PaintParams.details
PaintParamsDetails ==
    (PAINT_PARAM_BASE :> Details("TYPE", "namedtuple", 0))
    @@ (PAINT_PARAM_BASE + 1 :> Details("COLOR", "c_float4", 0))
    @@ (PAINT_PARAM_BASE + 2 :>
          Details("COLOR_RAMP_SPREAD_MODE", "namedtuple", 0))
    @@ (PAINT_PARAM_BASE + 3 :>
          Details("COLOR_RAMP_SPREAD_STOPS", "c_float_p", 0))
    @@ (PAINT_PARAM_BASE + 4 :> Details("LINEAR_GRADIENT", "c_float4", 0))
    @@ (PAINT_PARAM_BASE + 5 :> Details("RADIAL_GRADIENT", "c_float5", 0))
    @@ (PAINT_PARAM_BASE + 6 :> Details("PATTERN_TILING_MODE", "namedtuple", 0))
    @@ (PAINT_PARAM_BASE + 7 :> Details("COLOR_RAMP_PREMULTIPLIED", "bool", 1))

\* The first names of PathCapabilities.bit_names.
PathCapabilitiesNames == <<"APPEND_FROM", "APPEND_TO">>

\* The class each class derives from.
BaseOf(cls) ==
    CASE cls = "PathCapabilities" -> "BitMask"
      [] cls \in {"PathParams", "PaintParams"} -> "Params"
      [] OTHER -> "object"

\* The class attributes, as the class statements bind them: each name is
\* bound in the class whose body assigns it, and nowhere else.
ClassAttributes ==
    (<<"BitMask", "bit_names">> :> <<>>)
    @@ (<<"BitMask", "extensions">> :> <<>>)
    @@ (<<"PathCapabilities", "bit_names">> :> PathCapabilitiesNames)
    @@ (<<"Params", "extensions">> :> <<>>)
    @@ (<<"PathParams", "details">> :> PathParamsDetails)
    @@ (<<"PaintParams", "details">> :> PaintParamsDetails)

\* reg: attrs, the value bound to each class attribute, and last, the last
\* call of an extend method with the attributes as they were before it.
RegOp(op, cls) == [op |-> op, cls |-> cls, result |-> "ok",
                   attrs |-> ClassAttributes]

RegInit == reg = [attrs |-> ClassAttributes, last |-> RegOp("class", "object")]

RECURSIVE OwnerOf(_, _, _)
\* Attribute lookup on a class: the class itself or the nearest base that
\* binds the name ("object" when none does).
OwnerOf(attrs, cls, name) ==
    IF cls = "object" \/ <<cls, name>> \in DOMAIN attrs THEN cls
    ELSE OwnerOf(attrs, BaseOf(cls), name)

\* cls.name
getattr(attrs, cls, name) == attrs[<<OwnerOf(attrs, cls, name), name>>]

\* cls.name changed in place: the object found by the lookup is the one
\* that changes.
Mutated(attrs, cls, name, value) ==
    [attrs EXCEPT ![<<OwnerOf(attrs, cls, name), name>>] = value]

\* Params.extend(attr_name, value, attr_type, default, desc=None) on the
\* subclass cls: cls.extensions[attr_name] = value;
\* cls.details[value] = Details(...).
Params_extend(cls, attr_name, value, attr_type, default) ==
    LET extensions == getattr(reg.attrs, cls, "extensions")
        with_ext == Mutated(reg.attrs, cls, "extensions",
                            (attr_name :> value) @@ extensions)
        details == getattr(with_ext, cls, "details")
        with_details ==
            Mutated(with_ext, cls, "details",
                    (value :> Details("An extension parameter", attr_type,
                                      default)) @@ details)
    IN  reg' = [attrs |-> with_details,
                last |-> [RegOp("Params.extend", cls) EXCEPT
                            !.attrs = reg.attrs]]

\* BitMask.extend(bit_number, bit_name, override=False) on the class cls,
\* BitMask itself or a subclass.
BitMask_extend(cls, bit_number, bit_name, override) ==
    LET bit_names == getattr(reg.attrs, cls, "bit_names")
        off_end == bit_number - Len(bit_names)
        call == [RegOp("BitMask.extend", cls) EXCEPT !.attrs = reg.attrs]
        named == Mutated(reg.attrs, cls, "bit_names",
                         IF off_end < 0
                         THEN [bit_names EXCEPT ![bit_number + 1] = bit_name]
                         ELSE bit_names \o Nones(off_end) \o <<bit_name>>)
        extensions == getattr(named, cls, "extensions")
    IN  IF off_end < 0 /\ ~(override \/ bit_names[bit_number + 1] = None)
        THEN reg' = [reg EXCEPT !.last = [call EXCEPT !.result = "TypeError"]]
        ELSE reg' = [attrs |-> Mutated(named, cls, "extensions",
                                       Append(extensions, bit_name)),
                     last |-> call]

----------------------------------------------------------------------------
(* povg.params, povg.paint, povg.path, povg.context: access to parameters *)

\* values._type_ for the ctypes array and pointer types; None for a type
\* without that attribute.
ElemType(values) ==
    CASE values \in {"c_float4", "c_float5", "c_float_p"} -> "c_float"
      [] values \in {"c_int4"} -> "c_int"
      [] OTHER -> None

\* povg.context._params: the ids of two vector parameters.
SCISSOR_RECTS == 4358
GLYPH_ORIGIN == 4386

\* The names bound in povg.params by its import from povg.native.
ParamsModuleGlobals ==
    {"vgGetParameterf", "vgGetParameterfv", "vgGetParameteri",
     "vgGetParameteriv", "vgSetParameterf", "vgSetParameterfv",
     "vgSetParameteri", "vgSetParameteriv"}

\* A name of povg.params evaluated: the function, or NameError.
Global(name) ==
    IF name \in ParamsModuleGlobals THEN [err |-> "", fn |-> name]
    ELSE [err |-> "NameError", fn |-> name]

\* native_getter(details)
native_getter(details) ==
    IF details.values = "c_float" THEN Global("vgGetParameterf")
    ELSE IF ElemType(details.values) # None
    THEN (IF ElemType(details.values) = "c_float"
          THEN Global("vgGetParameterfv")
          ELSE Global("vgGetParatemeriv"))
    ELSE Global("vgGetParameteri")

\* native_setter(details)
native_setter(details) ==
    IF details.values = "c_float" THEN Global("vgSetParameterf")
    ELSE IF ElemType(details.values) # None
    THEN (IF ElemType(details.values) = "c_float"
          THEN Global("vgSetParameterfv")
          ELSE Global("vgSetParatemeriv"))
    ELSE Global("vgSetParameteri")

\* param_convert(param, value, params): how the value read is converted.
param_convert(details) ==
    IF details.values = "bool" THEN "bool"
    ELSE IF BaseOf(details.values) = "BitMask" THEN details.values
    ELSE "as is"

\* A call of a function of povg.native: the function, the parameter id,
\* the count given (<<>> for none) and the value given (<<>> for none).
NativeCall(fn, param, count, value) ==
    [fn |-> fn, param |-> param, count |-> count, value |-> value]

\* pr: the last access: the method, the descriptor table it consulted, the
\* parameter id, the value given, the native calls made, the exception
\* raised ("ok" for none) and how the value read was converted; for a
\* setter made by _set_vector, its arguments and the tuples given.
Access(op, table, param, value) ==
    [op |-> op, table |-> table, param |-> param, value |-> value,
     calls |-> <<>>, result |-> "ok", converted |-> None,
     type_ |-> None, flattened |-> FALSE, known_size |-> <<>>,
     tuples |-> <<>>]

PrInit == pr = Access("none", <<>>, 0, <<>>)

\* The outcome of an access that made the calls: the last of them may raise.
Called(access, calls, raised) ==
    [access EXCEPT !.calls = calls,
                   !.result = IF raised THEN "OpenVGError" ELSE "ok"]

\* Path._get_param(param)
Path_get_param(param, raised) ==
    LET details == getattr(reg.attrs, "PathParams", "details")
        access == Access("Path._get_param", details, param, <<>>)
        get_fn == IF details[param].values = "c_float"
                  THEN "vgGetParameterf" ELSE "vgGetParameteri"
        called == Called(access, <<NativeCall(get_fn, param, <<>>, <<>>)>>,
                         raised)
    IN  IF param \notin DOMAIN details
        THEN pr' = [access EXCEPT !.result = "KeyError"]
        ELSE pr' = IF raised THEN called
                   ELSE [called EXCEPT
                           !.converted = param_convert(details[param])]

\* A slip: an unknown parameter is read as an integer.
Paint_get_param_unchecked(param, raised) ==
    LET details == getattr(reg.attrs, "PaintParams", "details")
        access == Access("Paint._get_param", details, param, <<>>)
    IN  pr' = Called(access,
                     <<NativeCall("vgGetParameteri", param, <<>>, <<>>)>>,
                     raised)

\* Paint._get_param(param)
Paint_get_param(param, raised) ==
    LET details == getattr(reg.attrs, "PaintParams", "details")
        access == Access("Paint._get_param", details, param, <<>>)
        get_fn == native_getter(details[param])
        called == Called(access,
                         <<NativeCall(get_fn.fn, param, <<>>, <<>>)>>, raised)
    IN  IF param \notin DOMAIN details
        THEN pr' = [access EXCEPT !.result = "KeyError"]
        ELSE IF get_fn.err # ""
        THEN pr' = [access EXCEPT !.result = get_fn.err]
        ELSE IF get_fn.fn = "vgGetParameteriv"
        THEN \* PaintParams.details[param](): a Details is not callable.
             pr' = [access EXCEPT !.result = "TypeError"]
        ELSE pr' = IF raised THEN called
                   ELSE [called EXCEPT
                           !.converted = param_convert(details[param])]

\* Paint._set_param(param, value); value is [scalar, vals] as for arc_to.
Paint_set_param(param, value, raised) ==
    LET details == getattr(reg.attrs, "PaintParams", "details")
        access == Access("Paint._set_param", details, param, value.vals)
        set_fn == native_getter(details[param])
    IN  IF param \notin DOMAIN details
        THEN pr' = [access EXCEPT !.result = "KeyError"]
        ELSE IF set_fn.err # ""
        THEN pr' = [access EXCEPT !.result = set_fn.err]
        ELSE IF set_fn.fn = "vgSetParameteriv"
        THEN IF value.scalar
             THEN pr' = [access EXCEPT !.result = "TypeError"]
             ELSE pr' = Called(access,
                               <<NativeCall(set_fn.fn, param,
                                            <<Len(value.vals)>>, value.vals)>>,
                               raised)
        ELSE pr' = Called(access,
                          <<NativeCall(set_fn.fn, param, <<>>, value.vals)>>,
                          raised)

----------------------------------------------------------------------------
(* povg.path.Path, povg.paint.Paint: the native handles *)

\* The value of native.INVALID_HANDLE, c_handle(0).
INVALID_HANDLE == 0

\* current == native.INVALID_HANDLE, current being the int a native
\* function returned: INVALID_HANDLE is an instance of c_uint, which defines
\* no comparison, so that nothing but itself is equal to it.
is_INVALID_HANDLE(current) == FALSE

\* A Path or a Paint: its handle attribute (<<>> while it has none), whether
\* its constructor created the native object, whether it is still alive.
Wrapper(cls, handle, owning) ==
    [cls |-> cls, handle |-> handle, owning |-> owning, alive |-> TRUE]

\* A call: the wrapper it made or was made on (0 for none), the handles it
\* passed to a native destroy function, the exception raised.
HdOp(op, wrapper, result) ==
    [op |-> op, wrapper |-> wrapper, destroys |-> <<>>, result |-> result]

\* hd: next, the handle the engine gives to the next object created;
\* wrappers, the Paths and Paints made; current, the paint set on the
\* context; destroyed, the handles passed to a native destroy function.
HdInit ==
    hd = [next |-> 1, wrappers |-> <<>>, current |-> INVALID_HANDLE,
          destroyed |-> <<>>, last |-> HdOp("none", 0, "ok")]

\* Path.__init__: when vgCreatePath raises, phandle is never assigned.
Path_init(raised) ==
    LET w == Len(hd.wrappers) + 1
    IN  IF raised
        THEN hd' = [hd EXCEPT
                      !.wrappers = Append(@, Wrapper("Path", <<>>, FALSE)),
                      !.last = HdOp("Path.__init__", w, "OpenVGError")]
        ELSE IF is_INVALID_HANDLE(hd.next)
        THEN hd' = [hd EXCEPT
                      !.wrappers = Append(@, Wrapper("Path", <<hd.next>>,
                                                     TRUE)),
                      !.next = @ + 1,
                      !.last = HdOp("Path.__init__", w, "OpenVGError")]
        ELSE hd' = [hd EXCEPT
                      !.wrappers = Append(@, Wrapper("Path", <<hd.next>>,
                                                     TRUE)),
                      !.next = @ + 1,
                      !.last = HdOp("Path.__init__", w, "ok")]

\* Paint(pthandle) in the state h, called by op; pthandle is <<>> for None.
NewPaint(h, op, pthandle, raised) ==
    LET w == Len(h.wrappers) + 1
    IN  IF pthandle # <<>>
        THEN [h EXCEPT !.wrappers = Append(@, Wrapper("Paint", pthandle,
                                                      FALSE)),
                       !.last = HdOp(op, w, "ok")]
        ELSE IF raised
        THEN [h EXCEPT !.wrappers = Append(@, Wrapper("Paint", <<>>, FALSE)),
                       !.last = HdOp(op, w, "OpenVGError")]
        ELSE [h EXCEPT !.wrappers = Append(@, Wrapper("Paint", <<h.next>>,
                                                      TRUE)),
                       !.next = @ + 1,
                       !.last = HdOp(op, w, "ok")]

\* Paint.__init__(pthandle=None)
Paint_init(pthandle, raised) ==
    hd' = NewPaint(hd, "Paint.__init__", pthandle, raised)

\* current_paint()
current_paint(raised) ==
    IF raised
    THEN hd' = [hd EXCEPT !.last = HdOp("current_paint", 0, "OpenVGError")]
    ELSE IF is_INVALID_HANDLE(hd.current)
    THEN hd' = [hd EXCEPT !.last = HdOp("current_paint", 0, "ok")]
    ELSE hd' = NewPaint(hd, "current_paint", <<hd.current>>, FALSE)

\* Paint.set_paint() on the wrapper w.
set_paint(w, raised) ==
    /\ hd.wrappers[w].cls = "Paint" /\ hd.wrappers[w].alive
    /\ hd.wrappers[w].handle # <<>>
    /\ IF raised
       THEN hd' = [hd EXCEPT !.last = HdOp("Paint.set_paint", w,
                                           "OpenVGError")]
       ELSE hd' = [hd EXCEPT !.current = hd.wrappers[w].handle[1],
                             !.last = HdOp("Paint.set_paint", w, "ok")]

\* Path.__del__ on the wrapper w; without a phandle the argument cannot be
\* converted and the native function is not called. An exception raised in
\* __del__ is ignored.
Path_del(w, raised) ==
    /\ hd.wrappers[w].cls = "Path" /\ hd.wrappers[w].alive
    /\ raised => hd.wrappers[w].handle # <<>>
    /\ hd' = [hd EXCEPT
                !.wrappers[w].alive = FALSE,
                !.destroyed = @ \o hd.wrappers[w].handle,
                !.last = [HdOp("Path.__del__", w,
                               IF hd.wrappers[w].handle = <<>>
                               THEN "AttributeError"
                               ELSE IF raised THEN "OpenVGError" ELSE "ok")
                            EXCEPT !.destroys = hd.wrappers[w].handle]]

\* Paint.__del__ as its disabled line would have it:
\* native.vgDestroyPaint(self).
Paint_del_destroys(w) ==
    /\ hd.wrappers[w].cls = "Paint" /\ hd.wrappers[w].alive
    /\ hd' = [hd EXCEPT
                !.wrappers[w].alive = FALSE,
                !.destroyed = @ \o hd.wrappers[w].handle,
                !.last = [HdOp("Paint.__del__", w, "ok")
                            EXCEPT !.destroys = hd.wrappers[w].handle]]

\* Paint.__del__ on the wrapper w: pass.
Paint_del(w) ==
    /\ hd.wrappers[w].cls = "Paint" /\ hd.wrappers[w].alive
    /\ hd' = [hd EXCEPT !.wrappers[w].alive = FALSE,
                        !.last = HdOp("Paint.__del__", w, "ok")]

----------------------------------------------------------------------------
(* povg.path.Path: what was added and what the engine was given *)

\* log: added, the segments handed to _add_segment so far; delivered, the
\* commands and the data of the calls of vgAppendPathData so far; clean,
\* whether every call so far returned without an exception. Nothing more is
\* recorded once a call has raised.
LogInit ==
    log = [added |-> <<>>,
           delivered |-> [commands |-> <<>>, data |-> <<>>],
           clean |-> TRUE]

Unclean ==
    [added |-> <<>>, delivered |-> [commands |-> <<>>, data |-> <<>>],
     clean |-> FALSE]

\* The log after an operation of the path: l is what the operation left in
\* last and calls what it left in native_calls.
Recorded(l, calls) ==
    IF ~log.clean \/ l.result # "ok" THEN Unclean
    ELSE
    [added |-> IF l.command # <<>>
               THEN Append(log.added,
                           [command |-> l.command[1], data |-> l.data])
               ELSE log.added,
     delivered |->
        [commands |-> log.delivered.commands
                      \o chain_from_iterable([i \in DOMAIN calls |->
                                                calls[i].commands]),
         data |-> log.delivered.data
                  \o chain_from_iterable([i \in DOMAIN calls |->
                                            calls[i].data])],
     clean |-> TRUE]

----------------------------------------------------------------------------
(* povg.matrix.Matrix and the engine's current matrix *)

\* Matrix.SIZE
SIZE == 3

\* The identity as the engine holds it: nine numbers, column by column.
Identity == <<1, 0, 0, 0, 1, 0, 0, 0, 1>>

\* A call: the operands and the result (0 for none) as positions in mats,
\* the operands' rows before the call, the engine's matrix right after
\* vgMultMatrix, and the exception raised.
MxOp(op, left, right) ==
    [op |-> op, left |-> left, right |-> right, result |-> 0,
     left_rows |-> <<>>, right_rows |-> <<>>, product |-> <<>>,
     raised |-> None]

\* mx: current, the engine's current matrix; mats, the rows of the Matrix
\* objects made; products, how many in-place products were taken.
MxInit ==
    mx = [current |-> Identity, mats |-> <<>>, products |-> 0,
          last |-> MxOp("none", 0, 0)]

\* The state of the components above before any of their operations.
RestInit == RegInit /\ PrInit /\ HdInit /\ LogInit /\ MxInit

----------------------------------------------------------------------------
(* povg.flatten and povg.unflatten *)

\* seq[start:stop] of Python, for stop >= 0: a negative start counts from
\* the end, and both ends are clipped to the sequence.
PySlice(seq, start, stop) ==
    LET len == Len(seq)
        from == IF start < 0
                THEN (IF len + start < 0 THEN 0 ELSE len + start)
                ELSE (IF start > len THEN len ELSE start)
        to == IF stop > len THEN len ELSE stop
    IN  SubSeq(seq, from + 1, to)

\* reversed(seq)
Reversed(seq) == [i \in DOMAIN seq |-> seq[Len(seq) + 1 - i]]

\* The outcome of a call: the exception raised ("" for none), and the value
\* returned, a flat sequence or a sequence of tuples.
Returned(kind, value) ==
    [err |-> "", kind |-> kind,
     flat |-> IF kind = "flat" THEN value ELSE <<>>,
     tuples |-> IF kind = "tuples" THEN value ELSE <<>>]

Raised(err) == [err |-> err, kind |-> "none", flat |-> <<>>, tuples |-> <<>>]

\* A slip: the tuple size is not enforced.
flatten_unchecked(tuples, n) ==
    Returned("flat", chain_from_iterable(tuples))

\* A slip: the tuples are chained last to first.
flatten_reversed(tuples, n) ==
    IF n # <<>> /\ ~(\A i \in DOMAIN tuples : Len(tuples[i]) = n[1])
    THEN Raised("ValueError")
    ELSE Returned("flat", chain_from_iterable(Reversed(tuples)))

\* flatten(tuples, n=None); n is <<>> for None and <<k>> for the number k.
flatten(tuples, n) ==
    IF n # <<>> /\ ~(\A i \in DOMAIN tuples : Len(tuples[i]) = n[1])
    THEN Raised("ValueError")
    ELSE Returned("flat", chain_from_iterable(tuples))

\* A slip: strict mode is ignored, the extra items go to a last tuple.
unflatten_never_strict(seq, n, strict) ==
    IF n = 0 THEN Raised("ZeroDivisionError")
    ELSE
    LET count == Len(seq) \div n
        extra == Len(seq) % n
        tuples == [tnum \in 1..count |->
                     PySlice(seq, n * (tnum - 1), n * tnum)]
    IN  IF extra # 0
        THEN Returned("tuples", Append(tuples, PySlice(seq, -extra, Len(seq))))
        ELSE Returned("tuples", tuples)

\* A slip: the extra items are dropped.
unflatten_drops_tail(seq, n, strict) ==
    IF n = 0 THEN Raised("ZeroDivisionError")
    ELSE
    LET count == Len(seq) \div n
        extra == Len(seq) % n
        tuples == [tnum \in 1..count |->
                     PySlice(seq, n * (tnum - 1), n * tnum)]
    IN  IF strict /\ extra # 0 THEN Raised("ValueError")
        ELSE Returned("tuples", tuples)

\* A slip: each slice stops one element early.
unflatten_short_slices(seq, n, strict) ==
    IF n = 0 THEN Raised("ZeroDivisionError")
    ELSE
    LET count == Len(seq) \div n
        extra == Len(seq) % n
        tuples == [tnum \in 1..count |->
                     PySlice(seq, n * (tnum - 1), n * tnum - 1)]
    IN  IF strict /\ extra # 0 THEN Raised("ValueError")
        ELSE IF extra # 0
        THEN Returned("tuples", Append(tuples, PySlice(seq, -extra, Len(seq))))
        ELSE Returned("tuples", tuples)

\* unflatten(seq, n, strict=True), for n >= 0; tnum runs over range(count),
\* here from 1.
unflatten(seq, n, strict) ==
    IF n = 0 THEN Raised("ZeroDivisionError")
    ELSE
    LET count == Len(seq) \div n
        extra == Len(seq) % n
        tuples == [tnum \in 1..count |->
                     PySlice(seq, n * (tnum - 1), n * tnum)]
    IN  IF strict /\ extra # 0 THEN Raised("ValueError")
        ELSE IF extra # 0
        THEN Returned("tuples", Append(tuples, PySlice(seq, -extra, Len(seq))))
        ELSE Returned("tuples", tuples)

\* The longest flat sequence, the most tuples and the widest tuple given to
\* the first call, the largest n, and the most calls chained.
MaxFlatLen == 4

MaxTuples == 2

MaxWidth == 2

MaxN == 3

MaxCalls == 2

\* The elements are told apart by their values: 1, 2, 3, ...
Iota(from, len) == [i \in 1..len |-> from + i - 1]

FlatInputs == {Iota(1, len) : len \in 0..MaxFlatLen}

RECURSIVE TuplesOfWidths(_, _)
\* Tuples of the given widths, filled with the numbers from `from` on.
TuplesOfWidths(widths, from) ==
    IF widths = <<>> THEN <<>>
    ELSE <<Iota(from, Head(widths))>>
         \o TuplesOfWidths(Tail(widths), from + Head(widths))

TupleInputs ==
    {TuplesOfWidths(widths, 1) :
       widths \in UNION {[1..k -> 0..MaxWidth] : k \in 0..MaxTuples}}

\* fl: the value in hand (out), the value the first call was given (orig)
\* and the calls made so far (hist).
FlIdle == [out |-> Returned("none", <<>>), orig |-> Returned("none", <<>>),
           hist |-> <<>>]

FlInit == fl = FlIdle

FlInputs ==
    /\ fl \in {[out |-> Returned("flat", f), orig |-> Returned("flat", f),
                hist |-> <<>>] : f \in FlatInputs}
              \cup
              {[out |-> Returned("tuples", t), orig |-> Returned("tuples", t),
                hist |-> <<>>] : t \in TupleInputs}

\* flatten applied to the sequence of tuples in hand.
call_flatten(n) ==
    /\ fl.out.kind = "tuples"
    /\ Len(fl.hist) < MaxCalls
    /\ fl' = [fl EXCEPT
                !.out = flatten(fl.out.tuples, n),
                !.hist = Append(@, [fn |-> "flatten", n |-> n, strict |-> TRUE])]

\* unflatten applied to the flat sequence in hand.
call_unflatten(n, strict) ==
    /\ fl.out.kind = "flat"
    /\ Len(fl.hist) < MaxCalls
    /\ fl' = [fl EXCEPT
                !.out = unflatten(fl.out.flat, n, strict),
                !.hist = Append(@, [fn |-> "unflatten", n |-> <<n>>,
                                    strict |-> strict])]

InitFlat == PathInit /\ FlInputs /\ BitMaskInit /\ EcInit /\ RestInit

NextFlat ==
    \/ \E n \in {<<>>} \cup {<<k>> : k \in 0..MaxN} :
         call_flatten(n) /\ UNCHANGED notFlatVars
    \/ \E n \in 0..MaxN, strict \in BOOLEAN :
         call_unflatten(n, strict) /\ UNCHANGED notFlatVars

SpecFlat == InitFlat /\ [][NextFlat]_vars

----------------------------------------------------------------------------
(* povg.context: the setters of vector parameters *)

\* (c_pointer * size)(*values), c_pointer being c_float_p or c_int_p: an
\* array of pointers, which takes no number; only the empty array is made.
pointer_array(values) ==
    IF values = <<>> THEN Returned("flat", <<>>) ELSE Raised("TypeError")

\* The call of a setter made by _set_vector.
VectorAccess(param_id, type_, flattened, known_size, val) ==
    [Access("_set_vector.setter", <<>>, param_id,
            IF flattened THEN <<>> ELSE val)
       EXCEPT !.type_ = type_, !.flattened = flattened,
              !.known_size = known_size,
              !.tuples = IF flattened THEN val ELSE <<>>]

\* array = (c_pointer * size)(*values); setv_fn(param_id, size, array)
write_vector(access, type_, values, raised) ==
    LET setv_fn == IF type_ = "float" THEN "vgSetfv" ELSE "vgSetiv"
        array == pointer_array(values)
    IN  IF array.err # ""
        THEN pr' = [access EXCEPT !.result = array.err]
        ELSE pr' = Called(access,
                          <<NativeCall(setv_fn, access.param,
                                       <<Len(values)>>, array.flat)>>,
                          raised)

\* A slip: the tuples are flattened whatever their size.
set_vector_unchecked(param_id, type_, flattened, known_size, val, raised) ==
    LET access == VectorAccess(param_id, type_, flattened, known_size, val)
    IN  IF flattened
        THEN write_vector(access, type_, chain_from_iterable(val), raised)
        ELSE write_vector(access, type_, val, raised)

\* The setter made by _set_vector(param_id, type_, flattened, known_size),
\* called with val: a sequence of tuples when flattened, a sequence of
\* numbers when not. known_size is <<>> for None and <<k>> for the number k.
set_vector(param_id, type_, flattened, known_size, val, raised) ==
    LET access == VectorAccess(param_id, type_, flattened, known_size, val)
        flat == flatten(val, known_size)
    IN  IF flattened
        THEN IF flat.err # ""
             THEN pr' = [access EXCEPT !.result = flat.err]
             ELSE write_vector(access, type_, flat.flat, raised)
        ELSE write_vector(access, type_, val, raised)

----------------------------------------------------------------------------
(* povg.matrix.Matrix: the operations *)

\* vgMultMatrix(m) on the current matrix c: c * m, both held column by
\* column (element (row, col) at col * 3 + row).
vgMultMatrix(c, m) ==
    [p \in 1..(SIZE * SIZE) |->
       LET col == (p - 1) \div SIZE
           row == (p - 1) % SIZE
       IN  c[0 * SIZE + row + 1] * m[col * SIZE + 0 + 1]
           + c[1 * SIZE + row + 1] * m[col * SIZE + 1 + 1]
           + c[2 * SIZE + row + 1] * m[col * SIZE + 2 + 1]]

\* Matrix._as_parameter_: matrix_type(*flatten(self.rows, self.SIZE))
as_parameter(rows) == flatten(rows, <<SIZE>>).flat

\* Matrix._from_current: the rows read from the engine's matrix c.
from_current(c) == unflatten(c, SIZE, TRUE).tuples

\* Matrix(rows)
Matrix_init(rows) ==
    mx' = [mx EXCEPT !.mats = Append(@, rows),
                     !.last = [MxOp("Matrix", 0, 0) EXCEPT
                                 !.result = Len(mx.mats) + 1]]

\* Matrix(from_current=...): without rows and without from_current the
\* engine's matrix is set to the identity first.
Matrix_init_current(is_from_current) ==
    LET c == IF is_from_current THEN mx.current ELSE Identity
    IN  mx' = [mx EXCEPT !.current = c,
                         !.mats = Append(@, from_current(c)),
                         !.last = [MxOp("Matrix", 0, 0) EXCEPT
                                     !.result = Len(mx.mats) + 1]]

\* Matrix.make_current
make_current(self) ==
    mx' = [mx EXCEPT !.current = as_parameter(mx.mats[self]),
                     !.last = MxOp("make_current", self, 0)]

\* Matrix.__mul__(mat): self.make_current(); vgMultMatrix(...);
\* result = Matrix(); result._from_current(). When the first native call
\* raises nothing has changed.
mul(self, mat, raised) ==
    LET call == [MxOp("__mul__", self, mat) EXCEPT
                   !.left_rows = mx.mats[self], !.right_rows = mx.mats[mat]]
        product == vgMultMatrix(as_parameter(mx.mats[self]),
                                as_parameter(mx.mats[mat]))
        \* result = Matrix(): vgLoadIdentity(), then _from_current().
        current == Identity
    IN  IF raised
        THEN mx' = [mx EXCEPT !.last = [call EXCEPT !.raised = OpenVGError]]
        ELSE mx' = [mx EXCEPT
                      !.current = current,
                      !.mats = Append(@, from_current(current)),
                      !.last = [call EXCEPT !.product = product,
                                            !.result = Len(mx.mats) + 1]]

\* Matrix.__imul__(mat)
imul(self, mat, raised) ==
    LET call == [MxOp("__imul__", self, mat) EXCEPT
                   !.left_rows = mx.mats[self], !.right_rows = mx.mats[mat]]
        product == vgMultMatrix(as_parameter(mx.mats[self]),
                                as_parameter(mx.mats[mat]))
    IN  IF raised
        THEN mx' = [mx EXCEPT !.last = [call EXCEPT !.raised = OpenVGError]]
        ELSE mx' = [mx EXCEPT
                      !.current = product,
                      !.mats[self] = from_current(product),
                      !.products = @ + 1,
                      !.last = [call EXCEPT !.product = product,
                                            !.result = self]]

----------------------------------------------------------------------------
(* The arguments explored. *)

\* Room for one more segment: in the pending buffers, and in every open
\* with block.
CanAdd(cap) ==
    /\ queuing => Len(queued_commands) < cap
    /\ \A i \in DOMAIN scopes : Len(scopes[i].added) < cap

Init == PathInit /\ FlInit /\ BitMaskInit /\ EcInit /\ RestInit

\* The queue: every method with coordinates of the documented shape and the
\* default flags; two positions for move_to.
QueuePoints == {<<1, 2>>, <<3, 4>>}

QueueRadii ==
    {[scalar |-> FALSE, vals |-> <<5, 5>>],
     [scalar |-> FALSE, vals |-> <<5, 7, 9>>]}

NextPath ==
    \/ \E raised \in BOOLEAN :
         CanAdd(MaxQueue) /\ close_path(raised) /\ UNCHANGED notPathVars
    \/ \E pos \in QueuePoints, raised \in BOOLEAN :
         CanAdd(MaxQueue) /\ move_to(pos, TRUE, raised) /\ UNCHANGED notPathVars
    \/ \E raised \in BOOLEAN :
         CanAdd(MaxQueue) /\ line_to(<<1, 2>>, TRUE, raised) /\ UNCHANGED notPathVars
    \/ \E raised \in BOOLEAN :
         CanAdd(MaxQueue) /\ hline_to(6, TRUE, raised) /\ UNCHANGED notPathVars
    \/ \E raised \in BOOLEAN :
         CanAdd(MaxQueue) /\ vline_to(6, TRUE, raised) /\ UNCHANGED notPathVars
    \/ \E raised \in BOOLEAN :
         CanAdd(MaxQueue) /\ quad_to(<<1, 2>>, <<3, 4>>, TRUE, raised)
         /\ UNCHANGED notPathVars
    \/ \E raised \in BOOLEAN :
         CanAdd(MaxQueue) /\ cubic_to(<<1, 2>>, <<3, 4>>, <<1, 2>>, TRUE, raised)
         /\ UNCHANGED notPathVars
    \/ \E raised \in BOOLEAN :
         CanAdd(MaxQueue) /\ smooth_quad_to(<<1, 2>>, TRUE, raised)
         /\ UNCHANGED notPathVars
    \/ \E raised \in BOOLEAN :
         CanAdd(MaxQueue) /\ smooth_cubic_to(<<1, 2>>, <<3, 4>>, TRUE, raised)
         /\ UNCHANGED notPathVars
    \/ \E radii \in QueueRadii :
         CanAdd(MaxQueue)
         /\ arc_to(radii, 30, <<1, 2>>, TRUE, TRUE, FALSE, FALSE)
         /\ UNCHANGED notPathVars
    \/ Len(scopes) < MaxDepth /\ queue_segments_enter /\ UNCHANGED notPathVars
    \/ \E raised \in BOOLEAN : queue_segments_exit(raised) /\ UNCHANGED notPathVars
    \/ queue_segments_throw /\ UNCHANGED notPathVars

SpecPath == Init /\ [][NextPath]_vars

\* The encoding: every method with either flag, a coordinate pair or a triple
\* for each position, and every kind of radii.
Points == {<<1, 2>>, <<3, 4, 5>>}

Radii ==
    {[scalar |-> TRUE, vals |-> <<5>>]}
    \cup {[scalar |-> FALSE, vals |-> s] :
            s \in {<<>>, <<5>>, <<5, 5>>, <<5, 7>>, <<5, 7, 9>>}}

NextEncode ==
    \/ \E raised \in BOOLEAN :
         CanAdd(MaxEncodeQueue) /\ close_path(raised) /\ UNCHANGED notPathVars
    \/ \E pos \in Points, is_absolute \in BOOLEAN, raised \in BOOLEAN :
         CanAdd(MaxEncodeQueue) /\ move_to(pos, is_absolute, raised)
         /\ UNCHANGED notPathVars
    \/ \E pos \in Points, is_absolute \in BOOLEAN, raised \in BOOLEAN :
         CanAdd(MaxEncodeQueue) /\ line_to(pos, is_absolute, raised)
         /\ UNCHANGED notPathVars
    \/ \E xpos \in {6}, is_absolute \in BOOLEAN, raised \in BOOLEAN :
         CanAdd(MaxEncodeQueue) /\ hline_to(xpos, is_absolute, raised)
         /\ UNCHANGED notPathVars
    \/ \E ypos \in {6}, is_absolute \in BOOLEAN, raised \in BOOLEAN :
         CanAdd(MaxEncodeQueue) /\ vline_to(ypos, is_absolute, raised)
         /\ UNCHANGED notPathVars
    \/ \E ctrl \in Points, pos \in Points, is_absolute \in BOOLEAN,
          raised \in BOOLEAN :
         CanAdd(MaxEncodeQueue) /\ quad_to(ctrl, pos, is_absolute, raised)
         /\ UNCHANGED notPathVars
    \/ \E ctrl0 \in Points, ctrl1 \in Points, pos \in Points,
          is_absolute \in BOOLEAN, raised \in BOOLEAN :
         CanAdd(MaxEncodeQueue)
         /\ cubic_to(ctrl0, ctrl1, pos, is_absolute, raised)
         /\ UNCHANGED notPathVars
    \/ \E pos \in Points, is_absolute \in BOOLEAN, raised \in BOOLEAN :
         CanAdd(MaxEncodeQueue) /\ smooth_quad_to(pos, is_absolute, raised)
         /\ UNCHANGED notPathVars
    \/ \E ctrl1 \in Points, pos \in Points, is_absolute \in BOOLEAN,
          raised \in BOOLEAN :
         CanAdd(MaxEncodeQueue)
         /\ smooth_cubic_to(ctrl1, pos, is_absolute, raised)
         /\ UNCHANGED notPathVars
    \/ \E radii \in Radii, is_short \in BOOLEAN, is_clockwise \in BOOLEAN,
          is_absolute \in BOOLEAN :
         CanAdd(MaxEncodeQueue)
         /\ arc_to(radii, 30, <<1, 2>>, is_short, is_clockwise, is_absolute,
                   FALSE)
         /\ UNCHANGED notPathVars
    \/ scopes = <<>> /\ queue_segments_enter /\ UNCHANGED notPathVars
    \/ \E raised \in BOOLEAN : queue_segments_exit(raised) /\ UNCHANGED notPathVars
    \/ queue_segments_throw /\ UNCHANGED notPathVars

SpecEncode == Init /\ [][NextEncode]_vars

\* The widest bit mask type, the most instances, the most integer masks given
\* to one constructor, and the most extensions registered.
MaxBits == 3

MaxMasks == 2

MaxArgs == 2

MaxExtensions == 2

\* The bit names a subclass declares, as PathCapabilities does: the first w
\* of these.
DeclaredNames == <<"A", None, "B", "C", "D", "E">>

Declared(w) == SubSeq(DeclaredNames, 1, w)

\* Integer masks for a type of width w: every mask within the width, and the
\* first one beyond it.
MasksOfWidth(w) == 0..(2 ^ w)

\* The masks given several at a time: the lowest bit, the next one, and
\* every bit of the width.
SomeMasks(w) == {1, 2, 2 ^ w - 1}

\* Keyword arguments: none, or one of a bit name, a name that is no bit, ALL.
Keywords ==
    {<<>>} \cup {<<[name |-> name, val |-> val]>> :
                   name \in {"A", "B", "ALL"}, val \in BOOLEAN}

\* A subclass of BitMask with its bit names declared, no instance yet.
BitMaskDeclared ==
    bm \in {[bit_names |-> Declared(w), extensions |-> <<>>, props |-> <<>>,
             masks |-> <<>>, last |-> BitMaskOp("class")] : w \in 0..MaxBits}

InitMask == PathInit /\ FlInit /\ BitMaskDeclared /\ EcInit /\ RestInit

NextMask ==
    \/ \E mask \in MasksOfWidth(Len(bm.bit_names)) :
         /\ Len(bm.masks) < MaxMasks
         /\ BitMask(<<mask>>, <<>>)
         /\ UNCHANGED notMaskVars
    \/ \E k \in 2..MaxArgs :
         \E args \in [1..k -> SomeMasks(Len(bm.bit_names))] :
           /\ Len(bm.masks) < MaxMasks
           /\ BitMask(args, <<>>)
           /\ UNCHANGED notMaskVars
    \/ \E args \in {<<>>, <<1>>}, kwargs \in Keywords :
         /\ Len(bm.masks) < MaxMasks
         /\ BitMask(args, kwargs)
         /\ UNCHANGED notMaskVars
    \/ \E left \in DOMAIN bm.masks, right \in DOMAIN bm.masks :
         eq(left, right) /\ UNCHANGED notMaskVars

SpecMask == InitMask /\ [][NextMask]_vars

\* Extending the type: any bit number up to the widest, two names; an
\* instance is made of one integer mask alone, with a bit name or with ALL.
NextExtend ==
    \/ \E bit_number \in 0..(MaxBits - 1), bit_name \in {"A", "B"},
          override \in BOOLEAN :
         /\ Len(bm.extensions) < MaxExtensions
         /\ extend(bit_number, bit_name, override)
         /\ UNCHANGED notMaskVars
    \/ \E kwargs \in {<<>>, <<[name |-> "B", val |-> TRUE]>>,
                       <<[name |-> "ALL", val |-> TRUE]>>} :
         /\ Len(bm.masks) < MaxMasks
         /\ BitMask(<<1>>, kwargs)
         /\ UNCHANGED notMaskVars

SpecExtend == InitMask /\ [][NextExtend]_vars

\* The most calls of wrapped functions.
MaxWrapped == 2

\* Error codes: none, the codes of either table, the one after the last of
\* each table, and a small number that is in neither.
Codes ==
    {0, 1} \cup (VG_ERROR_BASE..(VG_ERROR_BASE + 8))
           \cup (VGU_ERROR_BASE..(VGU_ERROR_BASE + 5))

\* What a function of the primary API returns: a number, or a handle.
Results == {0, 7}

NextCheck ==
    \/ \E result \in Results, code \in Codes :
         /\ Len(ec) < MaxWrapped
         /\ error_check(result, code)
         /\ UNCHANGED notCheckVars
    \/ \E result \in Codes :
         /\ Len(ec) < MaxWrapped
         /\ vgu_error_check(result)
         /\ UNCHANGED notCheckVars

SpecCheck == Init /\ [][NextCheck]_vars

\* The parameters: every id of either table, an id of neither, every kind of
\* value; an extension of either table under that id, by a scalar or by a
\* vector of integers; the setter of a flattened vector parameter of
\* integers and of a plain vector parameter of floats, each with and without
\* a declared size.
KnownSize == 2

MaxParamExtensions == 1

EXTENSION_PARAM == PAINT_PARAM_BASE + 8

ParamIds ==
    DOMAIN PathParamsDetails \cup DOMAIN PaintParamsDetails
    \cup {EXTENSION_PARAM}

ParamValues ==
    {[scalar |-> TRUE, vals |-> <<1>>],
     [scalar |-> FALSE, vals |-> Iota(1, 4)]}

NextParam ==
    \/ \E param \in ParamIds, raised \in BOOLEAN :
         Path_get_param(param, raised) /\ UNCHANGED notParamVars
    \/ \E param \in ParamIds, raised \in BOOLEAN :
         Paint_get_param(param, raised) /\ UNCHANGED notParamVars
    \/ \E param \in ParamIds, value \in ParamValues, raised \in BOOLEAN :
         Paint_set_param(param, value, raised) /\ UNCHANGED notParamVars
    \/ \E cls \in {"PathParams", "PaintParams"},
          attr_type \in {"c_float", "c_int4"} :
         /\ Cardinality(DOMAIN getattr(reg.attrs, cls, "extensions"))
              < MaxParamExtensions
         /\ Params_extend(cls, "EXT", EXTENSION_PARAM, attr_type, 0)
         /\ UNCHANGED notRegVars
    \/ \E known_size \in {<<>>, <<KnownSize>>}, val \in TupleInputs,
          raised \in BOOLEAN :
         /\ set_vector(SCISSOR_RECTS, "int", TRUE, known_size, val, raised)
         /\ UNCHANGED notParamVars
    \/ \E known_size \in {<<>>, <<KnownSize>>}, val \in FlatInputs,
          raised \in BOOLEAN :
         /\ set_vector(GLYPH_ORIGIN, "float", FALSE, known_size, val, raised)
         /\ UNCHANGED notParamVars

SpecParam == Init /\ [][NextParam]_vars

\* The handles: Paths and Paints made, set as the current paint, asked for
\* through current_paint and torn down, each once, in any order.
MaxWrappers == 3

NextHandle ==
    \/ \E raised \in BOOLEAN :
         /\ Len(hd.wrappers) < MaxWrappers
         /\ Path_init(raised)
         /\ UNCHANGED notHandleVars
    \/ \E raised \in BOOLEAN :
         /\ Len(hd.wrappers) < MaxWrappers
         /\ Paint_init(<<>>, raised)
         /\ UNCHANGED notHandleVars
    \/ \E raised \in BOOLEAN :
         /\ Len(hd.wrappers) < MaxWrappers
         /\ current_paint(raised)
         /\ UNCHANGED notHandleVars
    \/ \E w \in DOMAIN hd.wrappers, raised \in BOOLEAN :
         set_paint(w, raised) /\ UNCHANGED notHandleVars
    \/ \E w \in DOMAIN hd.wrappers, raised \in BOOLEAN :
         Path_del(w, raised) /\ UNCHANGED notHandleVars
    \/ \E w \in DOMAIN hd.wrappers :
         Paint_del(w) /\ UNCHANGED notHandleVars

SpecHandle == Init /\ [][NextHandle]_vars

\* The deliveries: a few kinds of segment, scopes that may nest, and a log
\* of what was added and what was delivered; the number of segments added
\* is bounded.
MaxAdded == 3

Logged == log' = Recorded(last', native_calls') /\ UNCHANGED notDeliverVars

NextDeliver ==
    \/ \E raised \in BOOLEAN :
         /\ CanAdd(MaxQueue) /\ Len(log.added) < MaxAdded
         /\ close_path(raised) /\ Logged
    \/ \E pos \in QueuePoints, raised \in BOOLEAN :
         /\ CanAdd(MaxQueue) /\ Len(log.added) < MaxAdded
         /\ move_to(pos, TRUE, raised) /\ Logged
    \/ \E raised \in BOOLEAN :
         /\ CanAdd(MaxQueue) /\ Len(log.added) < MaxAdded
         /\ hline_to(6, TRUE, raised) /\ Logged
    \/ Len(scopes) < MaxDepth /\ queue_segments_enter /\ Logged
    \/ \E raised \in BOOLEAN : queue_segments_exit(raised) /\ Logged
    \/ queue_segments_throw /\ Logged

SpecDeliver == Init /\ [][NextDeliver]_vars

\* The extensions: a parameter registered on either table of parameters
\* under either of two names, each with its id; a bit named on BitMask or on
\* PathCapabilities.
ExtensionParams ==
    {[attr_name |-> "EXT", value |-> EXTENSION_PARAM],
     [attr_name |-> "EXT2", value |-> EXTENSION_PARAM + 1]}

NextRegistry ==
    \/ \E cls \in {"PathParams", "PaintParams"}, ext \in ExtensionParams :
         /\ Cardinality(DOMAIN getattr(reg.attrs, cls, "extensions"))
              < MaxExtensions
         /\ Params_extend(cls, ext.attr_name, ext.value, "c_float", 0)
         /\ UNCHANGED notRegVars
    \/ \E cls \in {"BitMask", "PathCapabilities"},
          bit_number \in 0..(MaxBits - 1), override \in BOOLEAN :
         /\ Len(getattr(reg.attrs, cls, "extensions")) < MaxExtensions
         /\ BitMask_extend(cls, bit_number, "A", override)
         /\ UNCHANGED notRegVars

SpecRegistry == Init /\ [][NextRegistry]_vars

\* The matrices: a scaling, a translation and a shear, as rows of three;
\* Matrix objects made of them, of the identity or of the engine's matrix,
\* made current and multiplied.
MaxMatrices == 3

MaxProducts == 1

InputMatrices ==
    {<<<<2, 0, 0>>, <<0, 3, 0>>, <<0, 0, 1>>>>,
     <<<<1, 0, 0>>, <<0, 1, 0>>, <<1, 2, 1>>>>,
     <<<<1, 1, 0>>, <<0, 1, 0>>, <<0, 0, 1>>>>}

NextMatrix ==
    \/ \E rows \in InputMatrices :
         /\ Len(mx.mats) < MaxMatrices
         /\ Matrix_init(rows)
         /\ UNCHANGED notMatrixVars
    \/ \E is_from_current \in BOOLEAN :
         /\ Len(mx.mats) < MaxMatrices
         /\ Matrix_init_current(is_from_current)
         /\ UNCHANGED notMatrixVars
    \/ \E self \in DOMAIN mx.mats :
         make_current(self) /\ UNCHANGED notMatrixVars
    \/ \E self \in DOMAIN mx.mats, mat \in DOMAIN mx.mats,
          raised \in BOOLEAN :
         /\ Len(mx.mats) < MaxMatrices
         /\ mul(self, mat, raised)
         /\ UNCHANGED notMatrixVars
    \/ \E self \in DOMAIN mx.mats, mat \in DOMAIN mx.mats,
          raised \in BOOLEAN :
         /\ mx.products < MaxProducts
         /\ imul(self, mat, raised)
         /\ UNCHANGED notMatrixVars

SpecMatrix == Init /\ [][NextMatrix]_vars

----------------------------------------------------------------------------
(* Claims about the segment queue (SpecPath). *)

SegmentOps ==
    {"close_path", "move_to", "line_to", "hline_to", "vline_to", "quad_to",
     "cubic_to", "smooth_quad_to", "smooth_cubic_to", "arc_to"}

\* The operation recorded in l handed a segment to _add_segment.
IsSegmentCall(l) ==
    l.op \in SegmentOps /\ l.result \in {"ok", "OpenVGError"}

\* The opcodes, and the concatenated payloads, of a sequence of segments.
CommandsOf(segs) == [i \in DOMAIN segs |-> segs[i].command]

PayloadsOf(segs) == chain([i \in DOMAIN segs |-> segs[i].data])

\* A with block that was not entered inside another one, with no other one
\* entered inside it, was just left without an exception, its flush returned.
LeftNormally ==
    /\ last.op = "queue_segments.exit"
    /\ last.result = "ok"
    /\ ~last.nested

\* C1: when a queuing scope is left normally after k >= 1 segments were
\* added inside it, exactly one native bulk append call was issued, carrying
\* the k opcodes and their concatenated payloads in insertion order, and
\* afterwards the pending buffers are empty and the path is Idle. (Stated
\* here for a scope that is not nested and whose flush does not raise.)
C1_OneFlushCarriesScope ==
    (LeftNormally /\ Len(last.left) >= 1) =>
        /\ Len(native_calls) = 1
        /\ native_calls[1].n = Len(last.left)
        /\ native_calls[1].commands = CommandsOf(last.left)
        /\ native_calls[1].data = PayloadsOf(last.left)
        /\ queued_commands = <<>>
        /\ queued_data = <<>>
        /\ ~queuing

\* C2: when the body of a queuing scope raises, on leaving the scope the
\* segments buffered before the failure are flushed in one bulk append call,
\* the pending buffers are emptied and the path is back in Idle. (Stated
\* here for a scope that is not nested, with a segment buffered in it.)
C2_FlushOnException ==
    (last.op = "queue_segments.throw" /\ ~last.nested /\ Len(last.left) >= 1) =>
        /\ Len(native_calls) = 1
        /\ native_calls[1].commands = CommandsOf(last.left)
        /\ queued_commands = <<>>
        /\ queued_data = <<>>
        /\ ~queuing

\* C3: while the path is Queuing, adding a segment issues no native append
\* call: the segment's opcode goes to the end of the pending opcode buffer
\* and its payload values, the coordinates given in order, to the end of the
\* pending data buffer; the path stays Queuing.
C3_QueuingAddBuffers ==
    [][(queuing /\ IsSegmentCall(last')) =>
          /\ native_calls' = <<>>
          /\ last'.data = chain(last'.args)
          /\ queued_commands' = Append(queued_commands, last'.command[1])
          /\ queued_data' = queued_data \o last'.data
          /\ queuing']_vars

\* A quad_to was buffered behind a move_to.
C3_Witness ==
    /\ queuing
    /\ last.op = "quad_to"
    /\ queued_commands = <<2, 10>>
    /\ queued_data = <<3, 4, 1, 2, 3, 4>>
    /\ native_calls = <<>>

\* C4: while the path is Idle, adding a valid segment issues exactly one
\* native append call, with a segment count of 1 and that segment's opcode
\* and payload, and leaves the pending buffers and the Idle state unchanged.
C4_IdleAddDispatches ==
    [][(~queuing /\ IsSegmentCall(last')) =>
          /\ native_calls' =
               <<[n |-> 1, commands |-> <<last'.command[1]>>,
                  data |-> chain(last'.args)]>>
          /\ UNCHANGED <<queuing, queued_commands, queued_data>>]_vars

\* A cubic_to was dispatched on an Idle path.
C4_Witness ==
    /\ ~queuing
    /\ last.op = "cubic_to"
    /\ last.result = "ok"
    /\ native_calls = <<[n |-> 1, commands |-> <<12>>,
                         data |-> <<1, 2, 3, 4, 1, 2>>]>>
    /\ queued_commands = <<>>
    /\ queued_data = <<>>

\* C5: entering a queuing scope puts the path in Queuing with both pending
\* buffers empty, whatever they held before. (Stated here for a scope that is
\* not entered inside another one.)
C5_EnterClears ==
    (last.op = "queue_segments.enter" /\ Len(scopes) = 1) =>
        /\ queuing
        /\ queued_commands = <<>>
        /\ queued_data = <<>>

----------------------------------------------------------------------------
(* Claims about the encoding of segments (SpecEncode). *)

\* The position of the segment type of the call recorded in l in the order
\* close, move, line, hline, vline, quad, cubic, smooth-quad, smooth-cubic,
\* short-ccw-arc, short-cw-arc, large-ccw-arc, large-cw-arc, from 0.
TypeIndexOf(l) ==
    CASE l.op = "close_path" -> 0
      [] l.op = "move_to" -> 1
      [] l.op = "line_to" -> 2
      [] l.op = "hline_to" -> 3
      [] l.op = "vline_to" -> 4
      [] l.op = "quad_to" -> 5
      [] l.op = "cubic_to" -> 6
      [] l.op = "smooth_quad_to" -> 7
      [] l.op = "smooth_cubic_to" -> 8
      [] l.op = "arc_to" /\ l.is_short /\ ~l.is_clockwise -> 9
      [] l.op = "arc_to" /\ l.is_short /\ l.is_clockwise -> 10
      [] l.op = "arc_to" /\ ~l.is_short /\ ~l.is_clockwise -> 11
      [] l.op = "arc_to" /\ ~l.is_short /\ l.is_clockwise -> 12

\* The payload length of each segment type, by its index.
ArityOf(index) ==
    CASE index = 0 -> 0
      [] index \in {3, 4} -> 1
      [] index \in {1, 2, 7} -> 2
      [] index \in {5, 8} -> 4
      [] index = 6 -> 6
      [] index \in 9..12 -> 5

\* C6: every (opcode, payload) pair that is buffered or dispatched has a
\* payload as long as the arity of its segment type: a call with coordinates
\* of the wrong arity raises and neither enters the pending buffer nor
\* reaches the native append.
C6_ArityValidated ==
    IsSegmentCall(last) => Len(last.data) = ArityOf(TypeIndexOf(last))

C8_ArcPayload ==
    last.op = "arc_to" =>
        LET radii == last.args[1]
            rx == radii[1]
            ry == IF last.scalar \/ Len(radii) = 1 THEN radii[1] ELSE radii[2]
        IN  IF ~last.scalar /\ Len(radii) \notin {1, 2}
            THEN last.result = "TypeError" /\ native_calls = <<>>
            ELSE /\ IsSegmentCall(last)
                 /\ last.data = <<rx, ry>> \o last.args[2] \o last.args[3]

----------------------------------------------------------------------------
(* Claims about flatten and unflatten (SpecFlat). *)

\* The calls made were exactly these two functions, in this order.
Chained(first, second) ==
    /\ Len(fl.hist) = 2
    /\ fl.hist[1].fn = first
    /\ fl.hist[2].fn = second

\* C9: for every n > 0 and every flat sequence whose length is a multiple
\* of n, the empty one included, flatten(unflatten(flat, n)) equals flat.
C9_FlattenUnflatten ==
    (/\ Chained("unflatten", "flatten")
     /\ fl.hist[1].n[1] > 0
     /\ Len(fl.orig.flat) % fl.hist[1].n[1] = 0
     /\ fl.hist[2].n = <<>>) =>
        /\ fl.out.err = ""
        /\ fl.out.kind = "flat"
        /\ fl.out.flat = fl.orig.flat

\* Four elements went through 2-tuples and back.
C9_Witness ==
    /\ Chained("unflatten", "flatten")
    /\ fl.hist[1].n = <<2>>
    /\ fl.hist[2].n = <<>>
    /\ fl.orig.flat = <<1, 2, 3, 4>>
    /\ fl.out.flat = <<1, 2, 3, 4>>

\* C10: for every n > 0 and every sequence of tuples of exactly n elements
\* each, the empty sequence included, unflatten(flatten(tuples, n), n)
\* equals tuples.
C10_UnflattenFlatten ==
    (/\ Chained("flatten", "unflatten")
     /\ fl.hist[1].n # <<>>
     /\ fl.hist[1].n[1] > 0
     /\ fl.hist[2].n = fl.hist[1].n
     /\ \A i \in DOMAIN fl.orig.tuples :
          Len(fl.orig.tuples[i]) = fl.hist[1].n[1]) =>
        /\ fl.out.err = ""
        /\ fl.out.kind = "tuples"
        /\ fl.out.tuples = fl.orig.tuples

\* Two pairs went through a flat sequence and back.
C10_Witness ==
    /\ Chained("flatten", "unflatten")
    /\ fl.hist[1].n = <<2>>
    /\ fl.hist[2].n = <<2>>
    /\ fl.orig.tuples = <<<<1, 2>>, <<3, 4>>>>
    /\ fl.out.tuples = <<<<1, 2>>, <<3, 4>>>>

\* The first call made was this function, on the value given at the start.
FirstCall(fn) == Len(fl.hist) = 1 /\ fl.hist[1].fn = fn

\* C11: unflatten(flat, n) in strict mode, for a tuple size n > 0, raises
\* ValueError and returns nothing whenever len(flat) is not a multiple of n.
C11_StrictRaises ==
    (/\ FirstCall("unflatten")
     /\ fl.hist[1].strict
     /\ fl.hist[1].n[1] > 0
     /\ Len(fl.orig.flat) % fl.hist[1].n[1] # 0) =>
        /\ fl.out.err = "ValueError"
        /\ fl.out.kind = "none"

\* Four elements do not divide into 3-tuples.
C11_Witness ==
    /\ FirstCall("unflatten")
    /\ fl.hist[1].strict
    /\ fl.hist[1].n = <<3>>
    /\ fl.orig.flat = <<1, 2, 3, 4>>
    /\ fl.out.err = "ValueError"

\* C12: unflatten(flat, n, strict=False) never raises for n > 0: it returns
\* floor(len(flat)/n) tuples of exactly n elements followed, when
\* len(flat) mod n is nonzero, by one final tuple holding the remaining
\* len(flat) mod n elements, and the concatenation of the returned tuples
\* equals flat in order.
C12_NonStrictChunks ==
    (/\ FirstCall("unflatten")
     /\ ~fl.hist[1].strict
     /\ fl.hist[1].n[1] > 0) =>
        LET n == fl.hist[1].n[1]
            len == Len(fl.orig.flat)
            full == len \div n
            rest == len % n
            out == fl.out.tuples
        IN  /\ fl.out.err = ""
            /\ fl.out.kind = "tuples"
            /\ Len(out) = full + (IF rest # 0 THEN 1 ELSE 0)
            /\ \A i \in 1..full : Len(out[i]) = n
            /\ rest # 0 => Len(out[full + 1]) = rest
            /\ chain_from_iterable(out) = fl.orig.flat

\* Four elements became a 3-tuple and a short last tuple.
C12_Witness ==
    /\ FirstCall("unflatten")
    /\ ~fl.hist[1].strict
    /\ fl.hist[1].n = <<3>>
    /\ fl.orig.flat = <<1, 2, 3, 4>>
    /\ fl.out.tuples = <<<<1, 2, 3>>, <<4>>>>

\* C13: flatten(tuples, n) with n given raises ValueError whenever any inner
\* tuple has a length other than n, and otherwise (or when n is None)
\* returns the inner tuples' elements concatenated in order.
C13_FlattenShape ==
    FirstCall("flatten") =>
        LET n == fl.hist[1].n
            tuples == fl.orig.tuples
        IN  IF n # <<>> /\ (\E i \in DOMAIN tuples : Len(tuples[i]) # n[1])
            THEN fl.out.err = "ValueError" /\ fl.out.kind = "none"
            ELSE /\ fl.out.err = ""
                 /\ fl.out.kind = "flat"
                 /\ Len(fl.out.flat) = Len(chain_from_iterable(tuples))
                 /\ \A i \in DOMAIN tuples : \A j \in DOMAIN tuples[i] :
                      fl.out.flat[Len(chain_from_iterable(SubSeq(tuples, 1, i - 1)))
                                  + j] = tuples[i][j]

\* A pair and a single element were refused as 2-tuples.
C13_Witness ==
    /\ FirstCall("flatten")
    /\ fl.hist[1].n = <<2>>
    /\ fl.orig.tuples = <<<<1, 2>>, <<3>>>>
    /\ fl.out.err = "ValueError"

----------------------------------------------------------------------------
(* Claims about bit masks (SpecMask, SpecExtend). *)

\* The constructor was just called with integer masks only, each within the
\* width of the type, and returned.
BuiltFromInts ==
    /\ bm.last.op = "BitMask"
    /\ bm.last.kwargs = <<>>
    /\ \A i \in DOMAIN bm.last.args :
         bm.last.args[i] \in 0..(2 ^ Len(bm.bit_names) - 1)

\* The instance created last.
Newest == bm.masks[Len(bm.masks)]

RECURSIVE BitOr(_, _)
\* a | b, for a, b >= 0.
BitOr(a, b) ==
    IF a = 0 THEN b
    ELSE IF b = 0 THEN a
    ELSE (IF a % 2 = 1 \/ b % 2 = 1 THEN 1 ELSE 0)
         + 2 * BitOr(a \div 2, b \div 2)

RECURSIVE BitOrAll(_)
BitOrAll(ints) ==
    IF ints = <<>> THEN 0 ELSE BitOr(Head(ints), BitOrAll(Tail(ints)))

\* C14: for a bitmask type of declared width w and every integer m with
\* 0 <= m < 2^w, constructing the mask from m and converting it back to an
\* integer yields m, the sum of 2^i over the set bit positions i.
C14_IntRoundTrip ==
    (BuiltFromInts /\ Len(bm.last.args) = 1) =>
        /\ bm.last.result = "ok"
        /\ int(Newest) = bm.last.args[1]
        /\ \A i \in DOMAIN Newest :
             Newest[i] <=> ((bm.last.args[1] \div (2 ^ (i - 1))) % 2 = 1)

\* A mask of width 3 was built from 5: bits 0 and 2.
C14_Witness ==
    /\ BuiltFromInts
    /\ bm.last.args = <<5>>
    /\ Newest = <<TRUE, FALSE, TRUE>>
    /\ int(Newest) = 5

\* C15: constructing a bitmask from several raw integer masks m1..mk, each
\* within the declared width, no keyword arguments, yields a mask whose
\* integer value is the bitwise OR of m1..mk.
C15_MasksOred ==
    (BuiltFromInts /\ Len(bm.last.args) >= 1) =>
        /\ bm.last.result = "ok"
        /\ int(Newest) = BitOrAll(bm.last.args)

\* The name at position bit_number before the last operation, None when
\* the type was not that wide.
NameBefore ==
    IF bm.last.bit_number < Len(bm.last.bit_names)
    THEN bm.last.bit_names[bm.last.bit_number + 1]
    ELSE None

\* The last extend left the class attributes as they were.
ExtendLeftUnchanged ==
    /\ bm.bit_names = bm.last.bit_names
    /\ bm.extensions = bm.last.extensions

\* C16, as claimed: extend with override=False fails exactly when
\* bit_number lies within the current width and that position already has a
\* declared name different from the new name; with override=True, or when
\* the position is unnamed, it succeeds and the position carries the new
\* name; a failed extend leaves the bit names and extensions unchanged.
C16_ExtendFailsOnDifferentName ==
    bm.last.op = "extend" =>
        /\ bm.last.result # "ok" <=>
              (~bm.last.override /\ NameBefore \notin {None, bm.last.bit_name})
        /\ bm.last.result = "ok" =>
              bm.bit_names[bm.last.bit_number + 1] = bm.last.bit_name
        /\ bm.last.result # "ok" => ExtendLeftUnchanged

\* C16, amended: extend with override=False fails exactly when bit_number
\* lies within the current width and that position already has a declared
\* name, the new name or another; with override=True, or when the position
\* is unnamed, it succeeds and the position carries the new name; a failed
\* extend leaves the bit names and extensions unchanged.
C16_ExtendFailsOnNamedBit ==
    bm.last.op = "extend" =>
        /\ bm.last.result # "ok" <=>
              (~bm.last.override /\ NameBefore # None)
        /\ bm.last.result = "TypeError" \/ bm.last.result = "ok"
        /\ bm.last.result = "ok" =>
              bm.bit_names[bm.last.bit_number + 1] = bm.last.bit_name
        /\ bm.last.result # "ok" => ExtendLeftUnchanged

\* Bit 0, named A, was refused the name B without override.
C16_Witness ==
    /\ bm.last.op = "extend"
    /\ bm.last.bit_number = 0
    /\ bm.last.bit_name = "B"
    /\ ~bm.last.override
    /\ bm.last.bit_names[1] = "A"
    /\ bm.last.result = "TypeError"
    /\ bm.bit_names[1] = "A"

\* C17: extend with a bit_number at or beyond the current width w always
\* succeeds: afterwards the width is bit_number + 1, position bit_number
\* carries the new name, every position from w to bit_number - 1 is
\* unnamed, and the names of positions 0..w-1 are unchanged.
C17_ExtendGrows ==
    (bm.last.op = "extend" /\ bm.last.bit_number >= Len(bm.last.bit_names)) =>
        LET w == Len(bm.last.bit_names)
        IN  /\ bm.last.result = "ok"
            /\ Len(bm.bit_names) = bm.last.bit_number + 1
            /\ bm.bit_names[bm.last.bit_number + 1] = bm.last.bit_name
            /\ \A i \in (w + 1)..bm.last.bit_number : bm.bit_names[i] = None
            /\ SubSeq(bm.bit_names, 1, w) = bm.last.bit_names

\* A type of width 1 was extended at bit 2: bit 1 has no name.
C17_Witness ==
    /\ bm.last.op = "extend"
    /\ bm.last.bit_names = <<"A">>
    /\ bm.last.bit_number = 2
    /\ bm.last.bit_name = "B"
    /\ bm.bit_names = <<"A", None, "B">>

\* C18: two bitmask instances compare equal if and only if their integer
\* values are equal; distinct instances built from the same integer are
\* equal.
C18_EqualByValue ==
    bm.last.op = "==" =>
        (bm.last.equal <=>
           int(bm.masks[bm.last.left]) = int(bm.masks[bm.last.right]))

----------------------------------------------------------------------------
(* Claims about the error conventions (SpecCheck). *)

\* The error code of a call under its convention: the trap value for the
\* primary API, the return value for the utility API; none when the trap was
\* not read exactly once.
CodeOf(call) ==
    IF call.api = "vgu" THEN <<call.result>>
    ELSE IF Len(call.trap) = 1 THEN call.trap ELSE <<>>

\* The table of a call's convention.
TableOf(call) == IF call.api = "vgu" THEN vgu_error_codes ELSE error_codes

\* C19: under both error conventions, an error code of 0 never raises and
\* the wrapped native call's return value is returned to the caller
\* unchanged: for the primary API the code is the trap value read once after
\* the call, for the utility API it is the call's own return value.
C19_ZeroPasses ==
    \A i \in DOMAIN ec :
        /\ ec[i].api = "vg" => Len(ec[i].trap) = 1
        /\ CodeOf(ec[i]) = <<0>> =>
              /\ ec[i].raised = None
              /\ ec[i].returned = <<ec[i].result>>

\* A primary call returned the handle 7 with an empty trap, and a utility
\* call returned 0.
C19_Witness ==
    /\ Len(ec) = 2
    /\ ec[1] = [api |-> "vg", result |-> 7, trap |-> <<0>>, invoked |-> 1,
                raised |-> None, returned |-> <<7>>]
    /\ ec[2] = [api |-> "vgu", result |-> 0, trap |-> <<>>, invoked |-> 1,
                raised |-> None, returned |-> <<0>>]

\* C20: under both error conventions, a nonzero error code always raises
\* and no result is returned: the exception is the class mapped to that code
\* in that convention's own table, or the generic base OpenVGError when the
\* code is not in that table; the native function is invoked exactly once
\* per wrapped call, with no retry.
C20_NonzeroRaises ==
    \A i \in DOMAIN ec :
        /\ ec[i].invoked = 1
        /\ (CodeOf(ec[i]) # <<>> /\ CodeOf(ec[i]) # <<0>>) =>
              LET code == CodeOf(ec[i])[1]
              IN  /\ ec[i].returned = <<>>
                  /\ ec[i].raised # None
                  /\ code \in DOMAIN TableOf(ec[i]) =>
                        ec[i].raised = TableOf(ec[i])[code]
                  /\ code \notin DOMAIN TableOf(ec[i]) =>
                        ec[i].raised = OpenVGError

\* The trap held 0x1003 after a primary call, and a utility call returned
\* 0x1003, which is no code of the utility table.
C20_Witness ==
    /\ Len(ec) = 2
    /\ ec[1].api = "vg"
    /\ ec[1].trap = <<4099>>
    /\ ec[1].raised = "PathCapabilityError"
    /\ ec[1].returned = <<>>
    /\ ec[2].api = "vgu"
    /\ ec[2].result = 4099
    /\ ec[2].raised = "OpenVGError"
    /\ ec[2].returned = <<>>

----------------------------------------------------------------------------
(* Claims about the parameters (SpecParam). *)

ParamAccesses == {"Path._get_param", "Paint._get_param", "Paint._set_param"}

\* The last access was one of a path's or a paint's parameters, and the id
\* given is not in the table it consulted.
UnknownId == pr.op \in ParamAccesses /\ pr.param \notin DOMAIN pr.table

\* C21: getting or setting a parameter of a path or of a paint with an id
\* that is not in that kind's descriptor table raises KeyError, and no
\* native call is made.
C21_UnknownIdRaises ==
    UnknownId => pr.result = "KeyError" /\ pr.calls = <<>>

\* C21 happens: a path is asked for an id that only the paint table has,
\* since an extension registered it there.
C21_Witness ==
    /\ UnknownId
    /\ pr.op = "Path._get_param"
    /\ pr.param = EXTENSION_PARAM
    /\ EXTENSION_PARAM \in DOMAIN getattr(reg.attrs, "PaintParams", "details")
    /\ pr.result = "KeyError"

\* The last access was a call of a setter made by _set_vector.
IsVectorSet == pr.op = "_set_vector.setter"

\* The value given does not have the size the parameter declares: some
\* tuple of a flattened parameter, or the vector itself.
ShapeMismatch ==
    /\ pr.known_size # <<>>
    /\ IF pr.flattened
       THEN \E i \in DOMAIN pr.tuples : Len(pr.tuples[i]) # pr.known_size[1]
       ELSE Len(pr.value) # pr.known_size[1]

\* A local error was raised and no native call was made.
RaisedLocally == pr.result \notin {"ok", "OpenVGError"} /\ pr.calls = <<>>

\* C22, as claimed: setting a vector parameter that declares a size (a
\* fixed vector size, or the tuple width of a flattened parameter) with a
\* value that does not match it raises a local error, and the native write
\* is never made.
C22_SizeMismatchRaises ==
    (IsVectorSet /\ ShapeMismatch) => RaisedLocally

\* C22, amended: for a flattened parameter that declares a tuple width, a
\* value with a tuple of another width raises ValueError and the native
\* write is never made; the fixed size a parameter that is not flattened
\* declares is not validated, so that no such setter raises a shape error.
C22_WidthMismatchRaises ==
    IsVectorSet =>
        IF pr.flattened
        THEN ShapeMismatch => pr.result = "ValueError" /\ pr.calls = <<>>
        ELSE pr.result # "ValueError"

\* C22 happens: a flattened parameter of declared width is given a tuple of
\* another width next to one of the declared width.
C22_Witness ==
    /\ IsVectorSet /\ pr.flattened /\ ShapeMismatch
    /\ \E i \in DOMAIN pr.tuples : Len(pr.tuples[i]) = pr.known_size[1]
    /\ pr.result = "ValueError"

\* The write entry point for a declared type of values.
SetterFor(values) ==
    IF values = "c_float" THEN "vgSetParameterf"
    ELSE IF ElemType(values) = "c_float" THEN "vgSetParameterfv"
    ELSE IF ElemType(values) # None THEN "vgSetParameteriv"
    ELSE "vgSetParameteri"

\* C23: setting a parameter of a paint with a known id makes exactly one
\* native call, to the write entry point for the declared type of the
\* parameter's values, and none to a read entry point.
C23_SetIssuesOneWrite ==
    (pr.op = "Paint._set_param" /\ pr.param \in DOMAIN pr.table) =>
        /\ Len(pr.calls) = 1
        /\ pr.calls[1].fn = SetterFor(pr.table[pr.param].values)

----------------------------------------------------------------------------
(* Claims about the native handles (SpecHandle). *)

\* The last call was the teardown of a wrapper.
IsTeardown == hd.last.op \in {"Path.__del__", "Paint.__del__"}

\* The wrapper the last call was made on.
TornDown == hd.wrappers[hd.last.wrapper]

C25_OwnerDestroysOnce ==
    (IsTeardown /\ TornDown.owning) => hd.last.destroys = TornDown.handle

----------------------------------------------------------------------------
(* Claims about queuing scopes that nest (SpecPath). *)

\* The last n elements of the sequence s.
LastOf(s, n) == SubSeq(s, Len(s) - n + 1, Len(s))

\* The payloads of the segments, one after the other.
DataOf(segments) == chain_from_iterable([i \in DOMAIN segments |->
                                           segments[i].data])

\* C26: at most one queuing scope is in effect: from the entry of a scope
\* to its exit every segment added to the path is retained in the pending
\* buffers and none is dispatched, also when queue_segments is entered and
\* left again inside that scope.
C26_ScopeRetains ==
    scopes # <<>> =>
        LET added == scopes[1].added
        IN  /\ queuing
            /\ native_calls = <<>>
            /\ Len(added) <= Len(queued_commands)
            /\ LastOf(queued_commands, Len(added)) =
                 [i \in DOMAIN added |-> added[i].command]
            /\ Len(DataOf(added)) <= Len(queued_data)
            /\ LastOf(queued_data, Len(DataOf(added))) = DataOf(added)

----------------------------------------------------------------------------
(* Claims about what the engine is given (SpecDeliver). *)

\* C27: as long as no call has raised, whenever the path is not queuing the
\* commands and the data delivered to the engine by the append calls so far
\* are those of the segments added so far, in the order they were added,
\* each once.
C27_DeliveredIsAdded ==
    (log.clean /\ ~queuing) =>
        /\ log.delivered.commands =
             [i \in DOMAIN log.added |-> log.added[i].command]
        /\ log.delivered.data = DataOf(log.added)

\* C27 happens: segments were added before, inside and between scopes, one
\* scope inside another, and all of them have been delivered.
C27_Witness ==
    /\ log.clean /\ ~queuing /\ scopes = <<>>
    /\ Len(log.added) = MaxAdded
    /\ last.op = "queue_segments.exit" /\ last.nested
    /\ Len(last.left) >= 1
    /\ log.delivered.data # <<>>

----------------------------------------------------------------------------
(* Claims about instances of a type that is extended (SpecExtend). *)

\* The bit of that name can be read and written on the instance: the class
\* has the property, and the instance has a bit at its position.
Accessible(bits, name) ==
    name \in DOMAIN bm.props /\ bm.props[name] + 1 \in DOMAIN bits

\* C28: whatever masks are made and whatever extend calls are made on the
\* type, every instance has one bit for each declared position, so that
\* every declared name can be read and written on every instance, also on
\* those made before the type was extended past its width.
C28_InstancesAsWideAsType ==
    \A i \in DOMAIN bm.masks :
        /\ Len(bm.masks[i]) = Len(bm.bit_names)
        /\ \A pos \in DOMAIN bm.bit_names :
             bm.bit_names[pos] # None =>
                 Accessible(bm.masks[i], bm.bit_names[pos])

----------------------------------------------------------------------------
(* Claims about the class attributes (SpecRegistry). *)

\* The bit mask types and the tables of parameters.
Tables == {"BitMask", "PathCapabilities", "PathParams", "PaintParams"}

\* What a table holds: bit names or details, and extension records.
RecordsOf(cls) ==
    IF BaseOf(cls) = "Params" THEN {"details", "extensions"}
    ELSE {"bit_names", "extensions"}

\* C29: extend on one bit mask type or on one kind's table of parameters
\* leaves the bit names, the details and the extension records of every
\* other bit mask type and every other kind's table as they were.
C29_ExtendIsLocal ==
    reg.last.op \in {"Params.extend", "BitMask.extend"} =>
        \A cls \in Tables \ {reg.last.cls} :
            \A name \in RecordsOf(cls) :
                getattr(reg.attrs, cls, name)
                  = getattr(reg.last.attrs, cls, name)

----------------------------------------------------------------------------
(* Claims about the product of matrices (SpecMatrix). *)

\* C30: A * B returns a new Matrix whose rows are the engine's matrix as it
\* stood right after A was made current and multiplied on the right by B;
\* that product is the engine's current matrix when the operation returns;
\* A and B are unchanged.
C30_MulReturnsProduct ==
    (mx.last.op = "__mul__" /\ mx.last.raised = None) =>
        /\ mx.last.result = Len(mx.mats)
        /\ mx.last.result \notin {mx.last.left, mx.last.right}
        /\ mx.mats[mx.last.result] = from_current(mx.last.product)
        /\ mx.current = mx.last.product
        /\ mx.mats[mx.last.left] = mx.last.left_rows
        /\ mx.mats[mx.last.right] = mx.last.right_rows

====
